---- MODULE Spec2Model ----
(***************************************************************************)
(* A model of tmtestnet.py: the configuration loader, the reference        *)
(* resolver, the genesis and peer-set reconciler                           *)
(* (tendermint_finalize_config), the lifecycle orchestrator                *)
(* (network deploy / reset / destroy / start / stop / info, loadtest        *)
(* start / destroy), the download directory of the binaries                *)
(* (ensure_tendermint_binary) and the host key scan (get_host_keys).       *)
(*                                                                         *)
(* Conventions.                                                            *)
(*   - A Python str that the code inspects character by character (group   *)
(*     names, reference strings) is a sequence of one-character strings:   *)
(*     "a[0]" is <<"a", "[", "0", "]">>.                                    *)
(*   - A Python value that may be None is <<>> (None) or <<v>>.             *)
(*   - A function that may raise returns [ok |-> TRUE, val |-> v] or       *)
(*     [ok |-> FALSE, err |-> e].                                          *)
(*   - An OrderedDict is a sequence of <<key, value>> pairs with distinct  *)
(*     keys, in insertion order.                                           *)
(*   - A dict read from YAML is a record; an absent key is an absent field.*)
(***************************************************************************)
EXTENDS Integers, Sequences, FiniteSets, TLC

VARIABLES
    cfg_file,           \* on disk: the parsed content of the configuration file
    cfg,                \* the TestnetConfig of the current command, <<>> before any
    load_result,        \* result of the last load_testnet_config: <<>> before any load
    tendermint_config,  \* in memory: group name -> list of TendermintNodeConfig
    genesis_doc,        \* in memory: the genesis document of the current finalize pass
    fin_error,          \* <<>> or <<[group, list, err]>>: where the finalize pass raised
    tf,                 \* the work directory and the cloud resources of each component
    cfgdir,             \* on disk: group name -> its node configuration directory
    op,                 \* the command being executed and its arguments
    pc,                 \* position inside the command
    idx,                \* loop index of the current stage
    log,                \* events of the current command, in order
    exit_code,          \* <<>> while running / before any command, else <<0>> or <<1>>
    nops,               \* number of commands started so far
    download_path,      \* on disk: the files of the binaries' download directory
    ret                 \* result of the function called on its own, <<>> before the call

vars == <<cfg_file, cfg, load_result, tendermint_config, genesis_doc, fin_error,
          tf, cfgdir, op, pc, idx, log, exit_code, nops, download_path, ret>>

(***************************************************************************)
(* Python values                                                           *)
(***************************************************************************)
None == <<>>
Some(v) == <<v>>

Ok(v) == [ok |-> TRUE, val |-> v]
Raise(e) == [ok |-> FALSE, err |-> e]
RaiseAt(e, i) == [ok |-> FALSE, err |-> e, entry |-> i]

\* LET x == e IN F(x), with e evaluated once however often F uses x
Let(e, F(_)) == CHOOSE r \in {F(x) : x \in {e}} : TRUE

Get(d, k, default) == IF k \in DOMAIN d THEN d[k] ELSE default

Range(s) == {s[i] : i \in DOMAIN s}

Reverse(s) == [i \in 1..Len(s) |-> s[Len(s) + 1 - i]]

\* OrderedDict
od_keys(od) == [i \in 1..Len(od) |-> od[i][1]]
od_has(od, k) == \E i \in 1..Len(od) : od[i][1] = k
od_get(od, k) == od[CHOOSE i \in 1..Len(od) : od[i][1] = k][2]
od_set(od, k, v) ==
    IF od_has(od, k)
    THEN [i \in 1..Len(od) |-> IF od[i][1] = k THEN <<k, v>> ELSE od[i]]
    ELSE Append(od, <<k, v>>)

(***************************************************************************)
(* Constants of the program                                                *)
(***************************************************************************)
SUPPORTED_REGIONS ==
    {"us_east_1", "us_east_2", "us_west_1", "ap_northeast_2",
     "ap_southeast_2", "eu_central_1", "eu_west_1"}

Digits == {"0", "1", "2", "3", "4", "5", "6", "7", "8", "9"}

Letters ==
    {"a", "b", "c", "d", "e", "f", "g", "h", "i", "j", "k", "l", "m",
     "n", "o", "p", "q", "r", "s", "t", "u", "v", "w", "x", "y", "z",
     "A", "B", "C", "D", "E", "F", "G", "H", "I", "J", "K", "L", "M",
     "N", "O", "P", "Q", "R", "S", "T", "U", "V", "W", "X", "Y", "Z"}

ALLOWED_GROUP_NAME_CHARSET == Letters \cup Digits \cup {"_", "-"}

LOAD_TEST_METHODS == {"tm-bench"}

\* defaults of the TestnetNodeGroupConfig namedtuple
DefaultPower == 1000

(***************************************************************************)
(* Strings                                                                 *)
(***************************************************************************)
CountChar(s, c) == Cardinality({i \in 1..Len(s) : s[i] = c})

FirstIndex(s, c) == CHOOSE i \in 1..Len(s) : s[i] = c /\ \A j \in 1..(i - 1) : s[j] # c

RemoveChar(s, c) == SelectSeq(s, LAMBDA ch : ch # c)

RECURSIVE LStrip(_)
LStrip(s) == IF s # <<>> /\ s[1] = " " THEN LStrip(Tail(s)) ELSE s

Strip(s) == Reverse(LStrip(Reverse(LStrip(s))))

DigitVal(c) ==
    CASE c = "0" -> 0 [] c = "1" -> 1 [] c = "2" -> 2 [] c = "3" -> 3 [] c = "4" -> 4
      [] c = "5" -> 5 [] c = "6" -> 6 [] c = "7" -> 7 [] c = "8" -> 8 [] c = "9" -> 9

RECURSIVE DigitsVal(_)
DigitsVal(d) ==
    IF d = <<>> THEN 0
    ELSE 10 * DigitsVal(SubSeq(d, 1, Len(d) - 1)) + DigitVal(d[Len(d)])

\* Python's int(str): surrounding whitespace, an optional sign, decimal digits
\* with single underscores between them.
IntLiteralWellFormed(body) ==
    /\ body # <<>>
    /\ \A i \in 1..Len(body) : body[i] \in Digits \cup {"_"}
    /\ body[1] # "_"
    /\ body[Len(body)] # "_"
    /\ \A i \in 1..(Len(body) - 1) : ~(body[i] = "_" /\ body[i + 1] = "_")

IsSigned(u) == u # <<>> /\ u[1] \in {"+", "-"}

python_int(t) ==
    Let(Strip(t), LAMBDA u :
    Let(IF IsSigned(u) THEN Tail(u) ELSE u, LAMBDA body :
        IF ~IntLiteralWellFormed(body) THEN Raise("ValueError")
        ELSE Let(DigitsVal(RemoveChar(body, "_")), LAMBDA magnitude :
                 Ok(IF IsSigned(u) /\ u[1] = "-" THEN 0 - magnitude ELSE magnitude))))

(***************************************************************************)
(* References                                                              *)
(***************************************************************************)
TestnetNodeRef(group, id) == [group |-> group, id |-> id]

validate_group_name(n) ==
    IF \A i \in 1..Len(n) : n[i] \in ALLOWED_GROUP_NAME_CHARSET
    THEN Ok(n)
    ELSE Raise("Invalid character in group name")

as_testnet_node_ref(s) ==
    IF CountChar(s, "[") = 0
    THEN Let(validate_group_name(s), LAMBDA g :
             IF g.ok THEN Ok(TestnetNodeRef(g.val, None)) ELSE g)
    ELSE IF CountChar(s, "[") + 1 > 2
    THEN Raise("Invalid group/node ID format")
    ELSE Let(FirstIndex(s, "["), LAMBDA at :
         Let(validate_group_name(SubSeq(s, 1, at - 1)), LAMBDA g :
             IF ~g.ok THEN g
             ELSE Let(python_int(RemoveChar(SubSeq(s, at + 1, Len(s)), "]")), LAMBDA node_id :
                      IF ~node_id.ok THEN Raise("Expected node index to be an integer")
                      ELSE Ok(TestnetNodeRef(g.val, Some(node_id.val))))))

as_testnet_node_refs(l) ==
    Let([i \in 1..Len(l) |-> as_testnet_node_ref(l[i])], LAMBDA parsed :
        IF \A i \in 1..Len(l) : parsed[i].ok
        THEN Ok([i \in 1..Len(l) |-> parsed[i].val])
        ELSE Let(CHOOSE j \in 1..Len(l) :
                     ~parsed[j].ok /\ \A k \in 1..(j - 1) : parsed[k].ok,
                 LAMBDA i : RaiseAt(parsed[i].err, i - 1)))

DigitChar(d) ==
    CASE d = 0 -> "0" [] d = 1 -> "1" [] d = 2 -> "2" [] d = 3 -> "3" [] d = 4 -> "4"
      [] d = 5 -> "5" [] d = 6 -> "6" [] d = 7 -> "7" [] d = 8 -> "8" [] d = 9 -> "9"

RECURSIVE NatStr(_)
NatStr(n) == IF n < 10 THEN <<DigitChar(n)>> ELSE NatStr(n \div 10) \o <<DigitChar(n % 10)>>

\* "%d" % k
fmt_d(k) == IF k < 0 THEN <<"-">> \o NatStr(0 - k) ELSE NatStr(k)

testnet_node_ref_to_str(ref) ==
    IF ref.id = None THEN ref.group
    ELSE ref.group \o <<"[">> \o fmt_d(ref.id[1]) \o <<"]">>

(***************************************************************************)
(* Configuration loading                                                   *)
(***************************************************************************)
TestnetRegionConfig(node_count, start_id) ==
    [node_count |-> node_count, start_id |-> start_id]

\* regions_list: a list of single-entry mappings, each <<region_id, node_count>>
RECURSIVE parse_regions_loop(_, _, _, _, _)
parse_regions_loop(regions_list, i, start_id, seen_regions, result) ==
    IF i > Len(regions_list)
    THEN Ok(result)    \* regions not listed keep TestnetRegionConfig(0, 0)
    ELSE LET region_id == regions_list[i][1]
             node_count == regions_list[i][2]
         IN  IF region_id \notin SUPPORTED_REGIONS
             THEN RaiseAt("Unsupported region", i - 1)
             ELSE IF region_id \in seen_regions
             THEN RaiseAt("Duplicate region", i - 1)
             ELSE parse_regions_loop(
                      regions_list, i + 1, start_id + node_count,
                      seen_regions \cup {region_id},
                      [result EXCEPT ![region_id] =
                          TestnetRegionConfig(node_count, start_id)])

parse_regions_list(regions_list) ==
    IF regions_list = None
    THEN Raise("Expected regions parameter to be a list")
    ELSE parse_regions_loop(
             regions_list[1], 1, 0, {},
             [r \in SUPPORTED_REGIONS |-> TestnetRegionConfig(0, 0)])

\* cfg_dict: the mapping of one node group; abci_config: the loaded ABCI names
load_node_group_config(cfg_dict, abci_config) ==
    Let(parse_regions_list(IF "regions" \in DOMAIN cfg_dict
                           THEN Some(cfg_dict.regions) ELSE None), LAMBDA regions :
    IF ~regions.ok THEN regions ELSE
    Let(as_testnet_node_refs(Get(cfg_dict, "use_seeds", <<>>)), LAMBDA use_seeds :
    IF ~use_seeds.ok THEN use_seeds ELSE
    Let(as_testnet_node_refs(Get(cfg_dict, "persistent_peers", <<>>)), LAMBDA persistent_peers :
    IF ~persistent_peers.ok THEN persistent_peers
    ELSE IF "abci" \in DOMAIN cfg_dict /\ cfg_dict.abci \notin abci_config
    THEN Raise("Unrecognized ABCI configuration")
    ELSE Ok([binary |-> IF "binary" \in DOMAIN cfg_dict THEN Some(cfg_dict.binary) ELSE None,
             abci |-> IF "abci" \in DOMAIN cfg_dict THEN Some(cfg_dict.abci) ELSE None,
             validators |-> Get(cfg_dict, "validators", TRUE),
             in_genesis |-> Get(cfg_dict, "in_genesis", TRUE),
             power |-> Get(cfg_dict, "power", DefaultPower),
             service_state |-> Get(cfg_dict, "service_state", "started"),
             use_seeds |-> use_seeds.val,
             persistent_peers |-> persistent_peers.val,
             regions |-> regions.val,
             generate_tendermint_config |->
                 Get(cfg_dict, "generate_tendermint_config", TRUE)]))))

load_load_test_config(cfg_dict) ==
    IF Get(cfg_dict, "method", "") \notin LOAD_TEST_METHODS
    THEN Raise("Invalid method")
    ELSE Ok([targets |-> Get(cfg_dict, "targets", <<>>)])

\* as_ordered_dict: v is the list of single-entry mappings <<key, value>>,
\* transformed holds value_transform of each value; the first value that fails
\* to transform raises, a repeated key overwrites the value held under it
RECURSIVE od_from_list(_, _, _)
od_from_list(v, transformed, n) ==
    IF n = 0 THEN <<>>
    ELSE od_set(od_from_list(v, transformed, n - 1), v[n][1], transformed[n].val)

as_ordered_dict(v, transformed) ==
    IF \A i \in 1..Len(v) : transformed[i].ok
    THEN Ok(od_from_list(v, transformed, Len(v)))
    ELSE Let(CHOOSE j \in 1..Len(v) :
                 ~transformed[j].ok /\ \A k \in 1..(j - 1) : transformed[k].ok,
             LAMBDA i : transformed[i] @@ [item |-> i - 1])

load_node_groups_config(cfg_list, abci_config) ==
    Let([i \in 1..Len(cfg_list) |-> load_node_group_config(cfg_list[i][2], abci_config)],
        LAMBDA transformed : as_ordered_dict(cfg_list, transformed))

load_load_tests_config(cfg_list) ==
    Let([i \in 1..Len(cfg_list) |-> load_load_test_config(cfg_list[i][2])],
        LAMBDA transformed : as_ordered_dict(cfg_list, transformed))

DefaultInfluxDB == [enabled |-> FALSE, deploy |-> FALSE, url |-> None, password |-> None]

load_influxdb_config(cfg_dict) ==
    IF "enabled" \notin DOMAIN cfg_dict \/ ~cfg_dict.enabled
    THEN Ok(DefaultInfluxDB)
    ELSE IF "password" \notin DOMAIN cfg_dict \/ Len(cfg_dict.password) = 0
    THEN Raise("Missing InfluxDB password in monitoring configuration")
    ELSE Ok([enabled |-> cfg_dict.enabled,
             deploy |-> Get(cfg_dict, "deploy", FALSE),
             url |-> IF "url" \in DOMAIN cfg_dict THEN Some(cfg_dict.url) ELSE None,
             password |-> Some(cfg_dict.password)])

EmptyDict == [x \in {} |-> 0]

load_monitoring_config(cfg_dict) ==
    Let(load_influxdb_config(Get(cfg_dict, "influxdb", EmptyDict)), LAMBDA influxdb :
        IF ~influxdb.ok THEN influxdb ELSE Ok([influxdb |-> influxdb.val]))

\* the set of ABCI configuration names (their playbooks are files outside the model)
load_abci_configs(cfg_dict) == cfg_dict

\* cfg_dict: the parsed YAML document
load_testnet_config(cfg_dict) ==
    IF "id" \notin DOMAIN cfg_dict
    THEN Raise("Missing required id parameter in configuration file")
    ELSE
    Let(load_abci_configs(Get(cfg_dict, "abci", {})), LAMBDA abci_config :
    Let(load_monitoring_config(Get(cfg_dict, "monitoring", EmptyDict)), LAMBDA monitoring :
    IF ~monitoring.ok THEN monitoring ELSE
    Let(load_node_groups_config(Get(cfg_dict, "node_groups", <<>>), abci_config),
        LAMBDA node_groups :
    IF ~node_groups.ok THEN node_groups ELSE
    Let(load_load_tests_config(Get(cfg_dict, "load_tests", <<>>)), LAMBDA load_tests :
    IF ~load_tests.ok THEN load_tests
    ELSE Ok([id |-> cfg_dict.id,
             monitoring |-> monitoring.val,
             abci |-> abci_config,
             node_groups |-> node_groups.val,
             load_tests |-> load_tests.val])))))

\* accessors of a loaded configuration
GroupNames(c) == od_keys(c.node_groups)
Group(c, name) == od_get(c.node_groups, name)
\* the number of nodes a group asks the provisioning engine for: the sum of
\* nodes_<region> over the input variables
RECURSIVE SumNodeCount(_, _)
SumNodeCount(regions, R) ==
    IF R = {} THEN 0
    ELSE LET r == CHOOSE x \in R : TRUE
         IN  regions[r].node_count + SumNodeCount(regions, R \ {r})

NodeCount(group_cfg) == SumNodeCount(group_cfg.regions, SUPPORTED_REGIONS)

(***************************************************************************)
(* Identity                                                                *)
(***************************************************************************)
\* A private key is the sequence of the bytes that base64.b64decode returns.
\* sum(pub_key_bytes)
RECURSIVE sum(_)
sum(bytes) == IF bytes = <<>> THEN 0 ELSE Head(bytes) + sum(Tail(bytes))

\* a reader that takes whatever follows the first 32 bytes for the public key
get_ed25519_pub_key_unchecked(priv_key_bytes) ==
    Ok(SubSeq(priv_key_bytes, 33, Len(priv_key_bytes)))

\* priv_key_bytes[32:] of a key of 64 bytes
get_ed25519_pub_key(priv_key_bytes) ==
    IF Len(priv_key_bytes) # 64 THEN Raise("Invalid ed25519 private key")
    ELSE Let(SubSeq(priv_key_bytes, 33, Len(priv_key_bytes)), LAMBDA pub_key_bytes :
             IF sum(pub_key_bytes) = 0 THEN Raise("Public key bytes not initialized")
             ELSE Ok(pub_key_bytes))

\* the first 20 bytes of SHA-256 in hex: one id per public key
ed25519_pub_key_to_id(pub_key) == [sha256_20 |-> pub_key]

\* "%s@%s:26656" % (address, host)
tendermint_peer_id(host, address) == [address |-> address, host |-> host, port |-> 26656]

(***************************************************************************)
(* Node configuration on disk                                              *)
(***************************************************************************)
\* What `tendermint testnet` writes for node i of a group: the moniker is the
\* hostname handed to it, the keys are fresh at every generation (64 bytes,
\* the public half unlike that of any other node and generation).
GeneratedNodeDir(node_group_name, i, hostname, gen) ==
    [moniker |-> hostname,
     node_key |-> [k \in 1..64 |->
                     IF k = 33 THEN (IF node_group_name = <<"a">> THEN 1 ELSE 2)
                     ELSE IF k = 34 THEN i + 1
                     ELSE IF k = 35 THEN gen
                     ELSE 7],
     priv_validator_key |-> [address |-> <<"addr", node_group_name, i, gen>>,
                             pub_key |-> <<"valpub", node_group_name, i, gen>>],
     p2p |-> [persistent_peers |-> {}, seeds |-> {}],
     genesis_json |-> None]

GeneratedDir(node_group_name, hostnames, gen) ==
    [gen |-> gen,
     nodes |-> [i \in 1..Len(hostnames) |->
                   GeneratedNodeDir(node_group_name, i - 1, hostnames[i], gen)]]

\* base_path: the directory's content, <<>> when there is none
tendermint_load_node_config(node_group_name, i, d) ==
    Let(get_ed25519_pub_key(d.node_key), LAMBDA pub_key :
        IF ~pub_key.ok THEN pub_key
        ELSE Ok([config_path |-> <<node_group_name, i>>,
                 moniker |-> d.moniker,
                 priv_validator_key |-> d.priv_validator_key,
                 node_key |-> d.node_key,
                 peer_id |-> tendermint_peer_id(d.moniker, ed25519_pub_key_to_id(pub_key.val))]))

tendermint_load_nodes_config(node_group_name, base_path, node_count) ==
    IF node_count > 0 /\ (base_path = None \/ Len(base_path[1].nodes) < node_count)
    THEN Raise("FileNotFoundError")
    ELSE Let([i \in 1..node_count |->
                 tendermint_load_node_config(node_group_name, i - 1, base_path[1].nodes[i])],
             LAMBDA loaded :
                 IF \E i \in 1..node_count : ~loaded[i].ok
                 THEN Raise("Invalid ed25519 private key")
                 ELSE Ok([i \in 1..node_count |-> loaded[i].val]))

(***************************************************************************)
(* Work directories, provisioning and the commands                         *)
(***************************************************************************)
\* the number of commands run one after the other
MaxOps == 3

\* the largest number of nodes of a group
MaxNodes == 2

\* the commands run one after the other may be followed by one more
\* loadtest destroy
MaxLoadTestOps == MaxOps + 1

\* an entry of the command's log: a call issued to the outside, or the
\* exception tmtestnet logs before it returns 1
Ev(event, target) == [event |-> event, target |-> target]

Goto(step, events) ==
    pc' = step /\ log' = log \o events /\ exit_code' = exit_code

Return(events) ==
    pc' = "idle" /\ log' = log \o events /\ exit_code' = Some(0)

\* an exception that is logged while the command goes on at the same step
LogAndGoOn(events, msg) ==
    pc' = pc /\ log' = log \o events \o <<Ev("error", <<msg>>)>> /\ exit_code' = exit_code

\* an exception that ends the command with exit code 0
Abort_returns_0(events, msg) ==
    pc' = "idle" /\ log' = log \o events \o <<Ev("error", <<msg>>)>> /\ exit_code' = Some(0)

Abort(events, msg) ==
    pc' = "idle" /\ log' = log \o events \o <<Ev("error", <<msg>>)>> /\ exit_code' = Some(1)

\* the node groups and load tests that have a place on disk in this model
Names == {<<"a">>, <<"b">>}
LoadTestIds == {"lt", "lu"}

\* a component's terraform work directory (the two files the tool looks for)
\* and whether its cloud resources exist
NoWorkdir == [extra_vars |-> None, output_vars |-> None, running |-> FALSE]

\* what can happen to a provisioning call: the playbook fails (sh raises), or
\* it succeeds and the host-key handling after it fails, or both succeed
Outcomes == {"ok", "sh_failed", "known_hosts_failed"}

OutcomeError(outcome) ==
    IF outcome = "sh_failed" THEN "Process failed with return code"
    ELSE "Call to ssh-keyscan or ssh-keygen failed"

\* terraform_deploy_*: extra vars saved with state present, the playbook run,
\* the output variables it wrote read back
terraform_deploy(w, outputs, outcome) ==
    IF outcome = "sh_failed" THEN [w EXCEPT !.extra_vars = Some("present")]
    ELSE [extra_vars |-> Some("present"), output_vars |-> Some(outputs), running |-> TRUE]

\* terraform_destroy_*: extra vars saved again with state absent, the playbook run
terraform_destroy(w, outcome) ==
    IF outcome = "sh_failed" THEN [w EXCEPT !.extra_vars = Some("absent")]
    ELSE [w EXCEPT !.extra_vars = Some("absent"), !.running = FALSE]

MonitoringOutputs == [influxdb_url |-> "http://monitor:8086", grafana_url |-> "http://monitor:3000"]

TestnetHostRef(group, id, hostname) == [group |-> group, id |-> id, hostname |-> hostname]

\* the public_dns the provisioning engine gives node<i> of a group
Hostname(node_group_name, i) == <<"host", node_group_name, i>>
Hostnames(node_group_name, n) == [i \in 1..n |-> Hostname(node_group_name, i - 1)]

\* output_vars["hosts"] as the playbook writes it: one list per region that
\* has nodes, the regions in any order, the nodes of a region (numbered from
\* the region's start id) in ascending or in descending order; a node is
\* <<i, public_dns>> for the entry node<i>
EngineReports(node_group_name, node_group_cfg) ==
    LET R == {r \in SUPPORTED_REGIONS : node_group_cfg.regions[r].node_count > 0}
        nodes(r, descending) ==
            [k \in 1..node_group_cfg.regions[r].node_count |->
                LET i == node_group_cfg.regions[r].start_id
                             + (IF descending
                                THEN node_group_cfg.regions[r].node_count - k ELSE k - 1)
                IN  <<i, Hostname(node_group_name, i)>>]
    IN  {[k \in 1..Cardinality(R) |-> nodes(p[k], descending)] :
            p \in {q \in [1..Cardinality(R) -> R] : \A r \in R : \E k \in DOMAIN q : q[k] = r},
            descending \in BOOLEAN}

\* an inventory that lists the addresses in the order of the report
RECURSIVE inventory_as_reported(_)
inventory_as_reported(hosts) ==
    IF hosts = <<>> THEN <<>>
    ELSE [k \in 1..Len(Head(hosts)) |-> Head(hosts)[k][2]] \o inventory_as_reported(Tail(hosts))

\* inventory[node_id] = public_dns for every node of every region, then
\* inventory_ordered[i] = inventory["node%d" % i] for i in range(len(inventory))
inventory_ordered(hosts) ==
    LET inventory == UNION {{hosts[r][k] : k \in 1..Len(hosts[r])} : r \in 1..Len(hosts)}
        node_ids == {node[1] : node \in inventory}
    IN  [i \in 1..Cardinality(node_ids) |->
            (CHOOSE node \in inventory : node[1] = i - 1)[2]]

\* the output variables of a provisioned node group
NodeGroupOutputs(hosts) ==
    [inventory_ordered |-> inventory_ordered(hosts)]

TestnetHomeExists ==
    \/ tf.monitoring.extra_vars # None
    \/ \E g \in Names : tf.groups[g].extra_vars # None \/ cfgdir[g] # None
    \/ \E l \in LoadTestIds : tf.load_tests[l].extra_vars # None

TendermintWorkdirExists ==
    \E g \in Names : tf.groups[g].extra_vars # None \/ cfgdir[g] # None

\* a resolver that raises for every reference it cannot resolve, whatever the flag
host_refs_of_strict(groups, ref, fail_on_missing) ==
    IF ref.group \notin DOMAIN groups \/ groups[ref.group].output_vars = None
    THEN Raise("Missing output variables for node group")
    ELSE Let(groups[ref.group].output_vars[1].inventory_ordered, LAMBDA inv :
         IF ref.id = None
         THEN Ok([i \in 1..Len(inv) |-> TestnetHostRef(ref.group, i - 1, inv[i])])
         ELSE IF ref.id[1] < 0 \/ ref.id[1] >= Len(inv)
         THEN Raise("Invalid ID for host in node group")
         ELSE Ok(<<TestnetHostRef(ref.group, ref.id[1], inv[ref.id[1] + 1])>>))

\* the hosts one reference stands for
host_refs_of(groups, ref, fail_on_missing) ==
    IF ref.group \notin DOMAIN groups \/ groups[ref.group].output_vars = None
    THEN IF fail_on_missing THEN Raise("Missing output variables for node group")
         ELSE Ok(<<>>)
    ELSE Let(groups[ref.group].output_vars[1].inventory_ordered, LAMBDA inv :
         IF ref.id = None
         THEN Ok([i \in 1..Len(inv) |-> TestnetHostRef(ref.group, i - 1, inv[i])])
         ELSE IF ref.id[1] < 0 \/ ref.id[1] >= Len(inv)
         THEN IF fail_on_missing THEN Raise("Invalid ID for host in node group")
              ELSE Ok(<<>>)
         ELSE Ok(<<TestnetHostRef(ref.group, ref.id[1], inv[ref.id[1] + 1])>>))

\* a list that takes every host found, seen before or not
append_all(hostnames, found) == hostnames \o found

\* if hostname not in seen_hostnames: hostnames.append(...)
RECURSIVE append_unseen(_, _)
append_unseen(hostnames, found) ==
    IF found = <<>> THEN hostnames
    ELSE append_unseen(
             IF \E j \in 1..Len(hostnames) : hostnames[j].hostname = Head(found).hostname
             THEN hostnames ELSE Append(hostnames, Head(found)),
             Tail(found))

RECURSIVE node_to_host_refs_from(_, _, _, _, _)
node_to_host_refs_from(groups, refs, fail_on_missing, i, hostnames) ==
    IF i > Len(refs) THEN Ok(hostnames)
    ELSE Let(host_refs_of(groups, refs[i], fail_on_missing), LAMBDA found :
             IF ~found.ok THEN found
             ELSE node_to_host_refs_from(
                      groups, refs, fail_on_missing, i + 1,
                      append_unseen(hostnames, found.val)))

\* groups: the work directories of the node groups
node_to_host_refs(groups, refs, fail_on_missing) ==
    node_to_host_refs_from(groups, refs, fail_on_missing, 1, <<>>)

\* <<influxdb_url, influxdb_password>>, each <<>> when there is none
get_influxdb_creds(c, monitoring_dir) ==
    IF ~c.monitoring.influxdb.enabled THEN Ok(<<None, None>>)
    ELSE IF ~c.monitoring.influxdb.deploy
    THEN Ok(<<c.monitoring.influxdb.url, c.monitoring.influxdb.password>>)
    ELSE IF monitoring_dir.output_vars = None THEN Raise("FileNotFoundError")
    ELSE Ok(<<Some(monitoring_dir.output_vars[1].influxdb_url), c.monitoring.influxdb.password>>)

get_grafana_url(c, monitoring_dir) ==
    IF ~c.monitoring.influxdb.enabled \/ ~c.monitoring.influxdb.deploy THEN Ok(None)
    ELSE IF monitoring_dir.output_vars = None THEN Raise("FileNotFoundError")
    ELSE Ok(Some(monitoring_dir.output_vars[1].grafana_url))

\* a loop that resolves the binary of every group, seen before or not
RECURSIVE ensure_tendermint_binaries_every_group(_, _, _, _)
ensure_tendermint_binaries_every_group(node_groups, i, available, acc) ==
    IF i > Len(node_groups) THEN Ok(acc)
    ELSE Let(node_groups[i][2].binary, LAMBDA binary :
             IF binary = None
             THEN [ok |-> FALSE, err |-> "AttributeError", resolved |-> acc.resolved]
             ELSE IF binary[1] \notin available
             THEN [ok |-> FALSE, err |-> "Cannot find, download or verify binary",
                   resolved |-> Append(acc.resolved, binary[1])]
             ELSE ensure_tendermint_binaries_every_group(node_groups, i + 1, available,
                      [seen_bins |-> acc.seen_bins \cup {binary},
                       result |-> (binary[1] :> <<"bin_path", binary[1]>>) @@ acc.result,
                       resolved |-> Append(acc.resolved, binary[1])]))

\* the loop of ensure_tendermint_binaries from group i on; acc.resolved lists
\* the calls of ensure_tendermint_binary made so far. A group without a
\* binary has binary None, and path.startswith raises for it; available is
\* the set of the binaries that can be found or downloaded, verified and
\* extracted
RECURSIVE ensure_tendermint_binaries_from(_, _, _, _)
ensure_tendermint_binaries_from(node_groups, i, available, acc) ==
    IF i > Len(node_groups) THEN Ok(acc)
    ELSE Let(node_groups[i][2].binary, LAMBDA binary :
             IF binary \in acc.seen_bins
             THEN ensure_tendermint_binaries_from(node_groups, i + 1, available, acc)
             ELSE IF binary = None
             THEN [ok |-> FALSE, err |-> "AttributeError", resolved |-> acc.resolved]
             ELSE IF binary[1] \notin available
             THEN [ok |-> FALSE, err |-> "Cannot find, download or verify binary",
                   resolved |-> Append(acc.resolved, binary[1])]
             ELSE ensure_tendermint_binaries_from(node_groups, i + 1, available,
                      [seen_bins |-> acc.seen_bins \cup {binary},
                       result |-> (binary[1] :> <<"bin_path", binary[1]>>) @@ acc.result,
                       resolved |-> Append(acc.resolved, binary[1])]))

ensure_tendermint_binaries(node_groups, available) ==
    ensure_tendermint_binaries_from(node_groups, 1, available,
        [seen_bins |-> {}, result |-> EmptyDict, resolved |-> <<>>])

\* the order in which network_destroy visits the node groups (a use of the
\* declared order, for comparison)
network_destroy_order_declared(node_groups) == od_keys(node_groups)

\* reversed(cfg.node_groups.items())
network_destroy_order(node_groups) == Reverse(od_keys(node_groups))

\* a deploy that walks the groups from the last to the first
network_deploy_order_reversed(node_groups) == Reverse(od_keys(node_groups))

\* for name, node_group_cfg in cfg.node_groups.items()
network_deploy_order(node_groups) == od_keys(node_groups)

RefStr(group, id) == testnet_node_ref_to_str(TestnetNodeRef(group, id))

\* a group name no configuration declares
UnknownGroup == <<"z">>

\* the command lines of this model; "unknown" stands for every command and
\* sub-command that tmtestnet has no function for
Commands ==
    [name : {"deploy"}, ec2_private_key_exists : BOOLEAN,
     keep_existing_tendermint_config : BOOLEAN]
    \cup [name : {"reset"}, ec2_private_key_exists : BOOLEAN,
          keep_existing_tendermint_config : BOOLEAN]
    \cup [name : {"destroy"}, keep_monitoring : BOOLEAN]
    \cup [name : {"loadtest_start"}, load_test_id : LoadTestIds]
    \cup [name : {"start", "stop"}, ec2_private_key_exists : BOOLEAN,
          fail_on_missing : BOOLEAN, fail_on_error : BOOLEAN]
    \cup [name : {"info", "loadtest_destroy", "unknown"}]

\* a tool whose reset goes through deploy
Entry_reset_deploys(command, c) ==
    IF command.name = "destroy"
    THEN IF Len(c.load_tests) > 0 THEN "destroy_load_test"
         ELSE IF Len(c.node_groups) > 0 THEN "destroy_group"
         ELSE "destroy_monitoring"
    ELSE IF command.name = "loadtest_destroy" THEN "destroy_load_test"
    ELSE IF command.name = "reset" THEN "deploy"
    ELSE command.name

\* where a command starts
Entry(command, c) ==
    IF command.name = "destroy"
    THEN IF Len(c.load_tests) > 0 THEN "destroy_load_test"
         ELSE IF Len(c.node_groups) > 0 THEN "destroy_group"
         ELSE "destroy_monitoring"
    ELSE IF command.name = "loadtest_destroy" THEN "destroy_load_test"
    ELSE command.name

\* tmtestnet(cfg_file, command, subcommand): load the configuration, run the command
tmtestnet(command) ==
    /\ pc = "idle"
    /\ nops < MaxOps \/ (nops < MaxLoadTestOps /\ command.name = "loadtest_destroy")
    /\ nops' = nops + 1
    /\ op' = command
    /\ idx' = 1
    /\ \E r \in {load_testnet_config(cfg_file)} :
          /\ load_result' = Some(r)
          /\ IF ~r.ok
             THEN /\ cfg' = cfg /\ pc' = "idle" /\ exit_code' = Some(1)
                  /\ log' = <<Ev("error", <<r.err>>)>>
             ELSE IF command.name = "unknown"      \* fn is None
             THEN /\ cfg' = r.val /\ pc' = "idle" /\ exit_code' = Some(1)
                  /\ log' = <<Ev("error", <<"Command/sub-command not yet supported">>)>>
             ELSE cfg' = r.val /\ pc' = Entry(command, r.val) /\ log' = <<>> /\ exit_code' = None
    /\ UNCHANGED <<download_path, ret, cfg_file, tendermint_config, genesis_doc, fin_error, tf, cfgdir>>

\* network_deploy up to the loop over the node groups
network_deploy ==
    /\ pc = "deploy"
    /\ \E next \in {IF Len(cfg.node_groups) = 0 THEN "reset" ELSE "deploy_group"} :
          IF ~op.ec2_private_key_exists
          THEN Abort(<<>>, "Cannot find EC2 private key") /\ UNCHANGED tf
          ELSE IF cfg.monitoring.influxdb.enabled /\ cfg.monitoring.influxdb.deploy
          THEN \E outcome \in Outcomes :
                  /\ tf' = [tf EXCEPT !.monitoring = terraform_deploy(@, MonitoringOutputs, outcome)]
                  /\ IF outcome = "ok"
                     THEN Goto(next, <<Ev("deploy_monitoring", <<>>)>>)
                     ELSE Abort(<<Ev("deploy_monitoring", <<>>)>>, OutcomeError(outcome))
          ELSE Goto(next, <<>>) /\ UNCHANGED tf
    /\ UNCHANGED <<download_path, ret, cfg_file, cfg, load_result, tendermint_config, genesis_doc, fin_error,
                   cfgdir, op, idx, nops>>

\* one iteration of network_deploy's loop: terraform_deploy_tendermint_node_group
network_deploy_node_group ==
    /\ pc = "deploy_group"
    /\ \E name \in {network_deploy_order(cfg.node_groups)[idx]} :
       \E hosts \in EngineReports(name, Group(cfg, name)) :
       \E outputs \in {NodeGroupOutputs(hosts)} :
       \E outcome \in IF outputs.inventory_ordered = <<>>
                      THEN Outcomes \ {"known_hosts_failed"} ELSE Outcomes :
          /\ tf' = [tf EXCEPT !.groups[name] = terraform_deploy(@, outputs, outcome)]
          /\ IF outcome = "ok"
             THEN /\ idx' = IF idx = Len(cfg.node_groups) THEN 1 ELSE idx + 1
                  /\ Goto(IF idx = Len(cfg.node_groups) THEN "reset" ELSE pc,
                          <<Ev("deploy_group", name)>>)
             ELSE /\ idx' = idx
                  /\ Abort(<<Ev("deploy_group", name)>>, OutcomeError(outcome))
    /\ UNCHANGED <<download_path, ret, cfg_file, cfg, load_result, tendermint_config, genesis_doc, fin_error,
                   cfgdir, op, nops>>

\* network_reset up to the loop that generates or loads the node configuration
network_reset ==
    /\ pc = "reset"
    /\ IF ~op.ec2_private_key_exists
       THEN Abort(<<>>, "Cannot find EC2 private key")
       ELSE \E available \in SUBSET {cfg.node_groups[i][2].binary[1] :
                                         i \in {j \in 1..Len(cfg.node_groups) :
                                                    cfg.node_groups[j][2].binary # None}} :
            \E binaries \in {ensure_tendermint_binaries(cfg.node_groups, available)} :
               IF ~binaries.ok
               THEN Abort(<<Ev("ensure_binaries", <<>>)>>, binaries.err)
               ELSE IF \E i \in 1..Len(cfg.node_groups) :
                          tf.groups[cfg.node_groups[i][1]].output_vars = None
               THEN Abort(<<Ev("ensure_binaries", <<>>)>>, "FileNotFoundError")
               ELSE Goto(IF Len(cfg.node_groups) = 0 THEN "finalize" ELSE "generate_config",
                         <<Ev("ensure_binaries", <<>>)>>)
    /\ tendermint_config' = EmptyDict
    /\ idx' = 1
    /\ UNCHANGED <<download_path, ret, cfg_file, cfg, load_result, genesis_doc, fin_error, tf, cfgdir, op, nops>>

\* tendermint_config with the list of one more group
WithGroup(tc, node_group_name, nodes_cfg) ==
    [g \in DOMAIN tc \cup {node_group_name} |->
        IF g = node_group_name THEN nodes_cfg ELSE tc[g]]

\* a reset that generates the configuration of a group whether or not it is
\* asked to keep the one that exists
network_reset_node_group_regenerates ==
    /\ pc = "generate_config"
    /\ \E name \in {cfg.node_groups[idx][1]}, node_group_cfg \in {cfg.node_groups[idx][2]},
          next \in {IF idx = Len(cfg.node_groups) THEN "finalize" ELSE pc} :
       \E hostnames \in {tf.groups[name].output_vars[1].inventory_ordered} :
          IF ~node_group_cfg.generate_tendermint_config
          THEN \* custom_tendermint_config_root: no such directory in this model
               \E loaded \in {tendermint_load_nodes_config(name, None, Len(hostnames))} :
                  /\ IF loaded.ok
                     THEN /\ tendermint_config' = WithGroup(tendermint_config, name, loaded.val)
                          /\ Goto(next, <<Ev("load_config", name)>>)
                     ELSE /\ UNCHANGED tendermint_config
                          /\ Abort(<<Ev("load_config", name)>>, loaded.err)
                  /\ UNCHANGED cfgdir
          ELSE \E sh_ok \in BOOLEAN :
               \E dir \in {GeneratedDir(name, IF sh_ok THEN hostnames ELSE <<>>, nops)} :
                  /\ cfgdir' = [cfgdir EXCEPT ![name] = Some(dir)]
                  /\ IF sh_ok
                     THEN /\ tendermint_config' =
                                 WithGroup(tendermint_config, name,
                                     tendermint_load_nodes_config(name, Some(dir),
                                                                  Len(hostnames)).val)
                          /\ Goto(next, <<Ev("generate_config", name)>>)
                     ELSE /\ UNCHANGED tendermint_config
                          /\ Abort(<<Ev("generate_config", name)>>, OutcomeError("sh_failed"))
    /\ idx' = IF idx = Len(cfg.node_groups) THEN 1 ELSE idx + 1
    /\ UNCHANGED <<download_path, ret, cfg_file, cfg, load_result, genesis_doc, fin_error, tf, op, nops>>

\* one iteration of network_reset's second loop: tendermint_generate_config
\* or tendermint_load_nodes_config for one group
network_reset_node_group ==
    /\ pc = "generate_config"
    /\ \E name \in {cfg.node_groups[idx][1]}, node_group_cfg \in {cfg.node_groups[idx][2]},
          next \in {IF idx = Len(cfg.node_groups) THEN "finalize" ELSE pc} :
       \E hostnames \in {tf.groups[name].output_vars[1].inventory_ordered} :
          IF ~node_group_cfg.generate_tendermint_config
          THEN \* custom_tendermint_config_root: no such directory in this model
               \E loaded \in {tendermint_load_nodes_config(name, None, Len(hostnames))} :
                  /\ IF loaded.ok
                     THEN /\ tendermint_config' = WithGroup(tendermint_config, name, loaded.val)
                          /\ Goto(next, <<Ev("load_config", name)>>)
                     ELSE /\ UNCHANGED tendermint_config
                          /\ Abort(<<Ev("load_config", name)>>, loaded.err)
                  /\ UNCHANGED cfgdir
          ELSE IF cfgdir[name] # None /\ op.keep_existing_tendermint_config
          THEN \E loaded \in {tendermint_load_nodes_config(name, cfgdir[name], Len(hostnames))} :
                  /\ IF loaded.ok
                     THEN /\ tendermint_config' = WithGroup(tendermint_config, name, loaded.val)
                          /\ Goto(next, <<Ev("load_config", name)>>)
                     ELSE /\ UNCHANGED tendermint_config
                          /\ Abort(<<Ev("load_config", name)>>, loaded.err)
                  /\ UNCHANGED cfgdir
          ELSE \E sh_ok \in BOOLEAN :
               \E dir \in {GeneratedDir(name, IF sh_ok THEN hostnames ELSE <<>>, nops)} :
                  /\ cfgdir' = [cfgdir EXCEPT ![name] = Some(dir)]
                  /\ IF sh_ok
                     THEN /\ tendermint_config' =
                                 WithGroup(tendermint_config, name,
                                     tendermint_load_nodes_config(name, Some(dir),
                                                                  Len(hostnames)).val)
                          /\ Goto(next, <<Ev("generate_config", name)>>)
                     ELSE /\ UNCHANGED tendermint_config
                          /\ Abort(<<Ev("generate_config", name)>>, OutcomeError("sh_failed"))
    /\ idx' = IF idx = Len(cfg.node_groups) THEN 1 ELSE idx + 1
    /\ UNCHANGED <<download_path, ret, cfg_file, cfg, load_result, genesis_doc, fin_error, tf, op, nops>>

(***************************************************************************)
(* tendermint_finalize_config                                              *)
(***************************************************************************)
\* a list indexed from one: what a resolver that misreads node indices does
PyIndexFromOne(l, k) ==
    IF 1 <= k /\ k <= Len(l) THEN Ok(l[k]) ELSE Raise("IndexError")

\* Python's list[k]: a negative k counts from the end
PyIndex(l, k) ==
    IF 0 <= k /\ k < Len(l) THEN Ok(l[k + 1])
    ELSE IF k < 0 /\ 0 - k <= Len(l) THEN Ok(l[Len(l) + k + 1])
    ELSE Raise("IndexError")

ref_peer_ids(ref, tc) ==
    IF ref.group \notin DOMAIN tc THEN Raise("KeyError")
    ELSE IF ref.id = None
    THEN Ok({tc[ref.group][i].peer_id : i \in 1..Len(tc[ref.group])})
    ELSE Let(PyIndex(tc[ref.group], ref.id[1]), LAMBDA n :
             IF n.ok THEN Ok({n.val.peer_id}) ELSE n)

\* a resolver that expands a reference to the first peer id it names only
unique_peer_ids_first_only(refs_list, tc) ==
    Let([i \in 1..Len(refs_list) |-> ref_peer_ids(refs_list[i], tc)], LAMBDA resolved :
        IF \E i \in 1..Len(refs_list) : ~resolved[i].ok
        THEN resolved[CHOOSE j \in 1..Len(refs_list) :
                          ~resolved[j].ok /\ \A k \in 1..(j - 1) : resolved[k].ok]
        ELSE Ok(UNION {IF resolved[i].val = {} THEN {}
                       ELSE {CHOOSE x \in resolved[i].val : TRUE} : i \in 1..Len(refs_list)}))

unique_peer_ids(refs_list, tc) ==
    Let([i \in 1..Len(refs_list) |-> ref_peer_ids(refs_list[i], tc)], LAMBDA resolved :
        IF \E i \in 1..Len(refs_list) : ~resolved[i].ok
        THEN resolved[CHOOSE j \in 1..Len(refs_list) :
                          ~resolved[j].ok /\ \A k \in 1..(j - 1) : resolved[k].ok]
        ELSE Ok(UNION {resolved[i].val : i \in 1..Len(refs_list)}))

\* a reconciler that leaves the node in its own peer set
with_self(peers, node_cfg) == peers

\* persistent_peers - {node_cfg.peer_id}; the written string joins the set's
\* members with "," in the set's iteration order
without_self(peers, node_cfg) == peers \ {node_cfg.peer_id}

\* a reconciler that looks at the validators flag alone
in_genesis_file_validators_only(node_group_cfg) == node_group_cfg.validators

in_genesis_file(node_group_cfg) == node_group_cfg.validators /\ node_group_cfg.in_genesis

genesis_validator(node_group_cfg, node_cfg) ==
    [address |-> node_cfg.priv_validator_key.address,
     pub_key |-> node_cfg.priv_validator_key.pub_key,
     power |-> node_group_cfg.power,
     name |-> node_cfg.moniker]

\* datetime.utcnow(): the logical clock is the number of the command
utcnow == nops


FinalizeBegin ==
    /\ pc = "finalize"
    /\ genesis_doc' = [genesis_time |-> utcnow, chain_id |-> cfg.id,
                       validators |-> <<>>, app_hash |-> ""]
    /\ fin_error' = None
    /\ idx' = 1
    /\ Goto(IF Len(cfg.node_groups) = 0 THEN "finalize_genesis" ELSE "finalize_group",
            <<Ev("finalize_config", <<>>)>>)
    /\ UNCHANGED <<download_path, ret, cfg_file, cfg, load_result, tendermint_config, tf, cfgdir, op, nops>>

\* a reconciler that writes each node the genesis document, as far as it is
\* built, along with its config.toml
WriteGroupConfig_with_genesis(dir, nodes_cfg, persistent_peers, seeds) ==
    [dir EXCEPT !.nodes = [i \in 1..Len(dir.nodes) |->
        IF i \in 1..Len(nodes_cfg)
        THEN [dir.nodes[i] EXCEPT
                 !.p2p = [persistent_peers |-> persistent_peers \ {nodes_cfg[i].peer_id},
                          seeds |-> seeds \ {nodes_cfg[i].peer_id}],
                 !.genesis_json = Some(genesis_doc)]
        ELSE dir.nodes[i]]]

\* the node directories of a group once every node's config.toml is saved
WriteGroupConfig(dir, nodes_cfg, persistent_peers, seeds) ==
    [dir EXCEPT !.nodes = [i \in 1..Len(dir.nodes) |->
        IF i \in 1..Len(nodes_cfg)
        THEN [dir.nodes[i] EXCEPT
                 !.p2p = [persistent_peers |-> without_self(persistent_peers, nodes_cfg[i]),
                          seeds |-> without_self(seeds, nodes_cfg[i])]]
        ELSE dir.nodes[i]]]

\* one iteration of the loop over cfg.node_groups
FinalizeGroup ==
    /\ pc = "finalize_group"
    /\ \E node_group_name \in {cfg.node_groups[idx][1]},
          node_group_cfg \in {cfg.node_groups[idx][2]} :
       \E persistent_peers \in {unique_peer_ids(node_group_cfg.persistent_peers,
                                                tendermint_config)},
          seeds \in {unique_peer_ids(node_group_cfg.use_seeds, tendermint_config)},
          nodes_cfg \in {tendermint_config[node_group_name]} :
           IF ~persistent_peers.ok
           THEN /\ fin_error' = Some([group |-> node_group_name, list |-> "persistent_peers",
                                      err |-> persistent_peers.err])
                /\ Abort(<<>>, persistent_peers.err)
                /\ UNCHANGED <<genesis_doc, cfgdir, idx>>
           ELSE IF ~seeds.ok
           THEN /\ fin_error' = Some([group |-> node_group_name, list |-> "use_seeds",
                                      err |-> seeds.err])
                /\ Abort(<<>>, seeds.err)
                /\ UNCHANGED <<genesis_doc, cfgdir, idx>>
           ELSE /\ cfgdir' = IF Len(nodes_cfg) = 0 THEN cfgdir
                             ELSE [cfgdir EXCEPT ![node_group_name] =
                                      Some(WriteGroupConfig(cfgdir[node_group_name][1], nodes_cfg,
                                                            persistent_peers.val, seeds.val))]
                /\ genesis_doc' =
                       IF in_genesis_file(node_group_cfg)
                       THEN [genesis_doc EXCEPT !.validators =
                                @ \o [i \in 1..Len(nodes_cfg) |->
                                         genesis_validator(node_group_cfg, nodes_cfg[i])]]
                       ELSE genesis_doc
                /\ idx' = idx + 1
                /\ Goto(IF idx = Len(cfg.node_groups) THEN "finalize_genesis" ELSE pc, <<>>)
                /\ UNCHANGED fin_error
    /\ UNCHANGED <<download_path, ret, cfg_file, cfg, load_result, tendermint_config, tf, op, nops>>

\* a reconciler that hands node i the validator list as it stood i entries in
WriteGenesisAsBuilt(dir, nodes_cfg, doc) ==
    [dir EXCEPT !.nodes = [i \in 1..Len(dir.nodes) |->
        IF i \in 1..Len(nodes_cfg)
        THEN [dir.nodes[i] EXCEPT !.genesis_json =
                 Some([doc EXCEPT !.validators =
                          SubSeq(@, 1, IF i < Len(@) THEN i ELSE Len(@))])]
        ELSE dir.nodes[i]]]

WriteGenesis(dir, nodes_cfg, doc) ==
    [dir EXCEPT !.nodes = [i \in 1..Len(dir.nodes) |->
        IF i \in 1..Len(nodes_cfg)
        THEN [dir.nodes[i] EXCEPT !.genesis_json = Some(doc)]
        ELSE dir.nodes[i]]]

\* the second loop: every node of every group gets the finished document
FinalizeWriteGenesis ==
    /\ pc = "finalize_genesis"
    /\ cfgdir' = [g \in DOMAIN cfgdir |->
                     IF g \in DOMAIN tendermint_config /\ Len(tendermint_config[g]) > 0
                     THEN Some(WriteGenesis(cfgdir[g][1], tendermint_config[g], genesis_doc))
                     ELSE cfgdir[g]]
    /\ Goto("ansible_deploy", <<>>)
    /\ UNCHANGED <<download_path, ret, cfg_file, cfg, load_result, tendermint_config, genesis_doc, fin_error,
                   tf, op, idx, nops>>

\* inventory["tendermint"]: for every group in declared order, one
\* AnsibleInventoryEntry per entry of its inventory_ordered, counted from 0;
\* the alias "%s__node%d" is the pair <<node_group_name, i>>
ansible_inventory(c, tendermint_outputs) ==
    LET entries(node_group_name) ==
            LET outputs == tendermint_outputs[node_group_name].output_vars[1]
            IN  [k \in 1..Len(outputs.inventory_ordered) |->
                    [alias |-> <<node_group_name, k - 1>>,
                     ansible_host |-> outputs.inventory_ordered[k],
                     node_group |-> node_group_name,
                     node_id |-> k - 1]]
        inventory[n \in 0..Len(c.node_groups)] ==
            IF n = 0 THEN <<>> ELSE inventory[n - 1] \o entries(c.node_groups[n][1])
    IN  inventory[Len(c.node_groups)]

\* ansible_deploy_tendermint: inventory and extra vars written, deploy.yaml run
ansible_deploy_tendermint ==
    /\ pc = "ansible_deploy"
    /\ IF ~TendermintWorkdirExists
       THEN Abort(<<>>, "Missing working directory")
       ELSE \E inventory \in {ansible_inventory(cfg, tf.groups)} :
            \E sh_ok \in BOOLEAN :
               IF ~sh_ok
               THEN Abort(<<Ev("ansible_deploy", inventory)>>, OutcomeError("sh_failed"))
               ELSE IF op.name = "deploy"
               THEN Goto("info", <<Ev("ansible_deploy", inventory)>>)
               ELSE Return(<<Ev("ansible_deploy", inventory)>>)
    /\ UNCHANGED <<download_path, ret, cfg_file, cfg, load_result, tendermint_config, genesis_doc, fin_error,
                   tf, cfgdir, op, idx, nops>>

\* an info that takes a group without recorded output for an error
network_info_strict ==
    /\ pc = "info"
    /\ \E influxdb \in {get_influxdb_creds(cfg, tf.monitoring)},
          grafana_url \in {get_grafana_url(cfg, tf.monitoring)},
          target_refs \in {[i \in 1..Len(cfg.node_groups) |->
                               TestnetNodeRef(cfg.node_groups[i][1], None)]} :
          IF ~TestnetHomeExists
          THEN Abort(<<>>, "Cannot find testnet home directory")
          ELSE IF ~influxdb.ok THEN Abort(<<>>, influxdb.err)
          ELSE IF ~grafana_url.ok THEN Abort(<<>>, grafana_url.err)
          ELSE IF \E i \in 1..Len(target_refs) :
                     tf.groups[target_refs[i].group].output_vars = None
          THEN Abort(<<>>, "Missing output variables for node group")
          ELSE Return(<<Ev("info", <<>>)>>)
    /\ UNCHANGED <<download_path, ret, cfg_file, cfg, load_result, tendermint_config, genesis_doc, fin_error,
                   tf, cfgdir, op, idx, nops>>

\* network_info: the command, and network_deploy's last step
network_info ==
    /\ pc = "info"
    /\ \E influxdb \in {get_influxdb_creds(cfg, tf.monitoring)},
          grafana_url \in {get_grafana_url(cfg, tf.monitoring)},
          target_refs \in {[i \in 1..Len(cfg.node_groups) |->
                               TestnetNodeRef(cfg.node_groups[i][1], None)]} :
          IF ~TestnetHomeExists
          THEN Abort(<<>>, "Cannot find testnet home directory")
          ELSE IF ~influxdb.ok THEN Abort(<<>>, influxdb.err)
          ELSE IF ~grafana_url.ok THEN Abort(<<>>, grafana_url.err)
          ELSE IF ~node_to_host_refs(tf.groups, target_refs, FALSE).ok
          THEN Abort(<<>>, "Missing output variables for node group")
          ELSE Return(<<Ev("info", <<>>)>>)
    /\ UNCHANGED <<download_path, ret, cfg_file, cfg, load_result, tendermint_config, genesis_doc, fin_error,
                   tf, cfgdir, op, idx, nops>>

\* one iteration of loadtest_destroy's loop: loadtest_stop with
\* fail_on_missing = False, that is terraform_destroy_tmbench; the loop is
\* the whole of the loadtest destroy command and the first part of network
\* destroy
loadtest_destroy ==
    /\ pc = "destroy_load_test"
    /\ IF Len(cfg.load_tests) = 0
       THEN Return(<<>>) /\ UNCHANGED tf
       ELSE
       \E load_test_id \in {cfg.load_tests[idx][1]},
          next \in {IF idx < Len(cfg.load_tests) THEN pc
                    ELSE IF op.name = "loadtest_destroy" THEN "idle"
                    ELSE IF Len(cfg.node_groups) > 0 THEN "destroy_group"
                    ELSE "destroy_monitoring"} :
          IF load_test_id \notin DOMAIN tf.load_tests
             \/ tf.load_tests[load_test_id].extra_vars = None
             \/ tf.load_tests[load_test_id].output_vars = None
          THEN /\ IF next = "idle" THEN Return(<<>>) ELSE Goto(next, <<>>)
               /\ UNCHANGED tf                        \* not previously deployed - skipping
          ELSE \E outcome \in Outcomes :
                  /\ tf' = [tf EXCEPT !.load_tests[load_test_id] = terraform_destroy(@, outcome)]
                  /\ IF outcome # "ok"
                     THEN Abort(<<Ev("destroy_load_test", <<load_test_id>>)>>,
                                OutcomeError(outcome))
                     ELSE IF next = "idle"
                     THEN Return(<<Ev("destroy_load_test", <<load_test_id>>)>>)
                     ELSE Goto(next, <<Ev("destroy_load_test", <<load_test_id>>)>>)
    /\ idx' = IF idx < Len(cfg.load_tests) THEN idx + 1 ELSE 1
    /\ UNCHANGED <<download_path, ret, cfg_file, cfg, load_result, tendermint_config, genesis_doc, fin_error,
                   cfgdir, op, nops>>

\* one iteration of network_destroy's loop: terraform_destroy_tendermint_node_group
network_destroy_node_group ==
    /\ pc = "destroy_group"
    /\ \E name \in {network_destroy_order(cfg.node_groups)[idx]},
          next \in {IF idx < Len(cfg.node_groups) THEN pc ELSE "destroy_monitoring"} :
          IF tf.groups[name].extra_vars = None
          THEN Abort(<<>>, "Cannot find terraform-extra-vars.yaml") /\ UNCHANGED tf
          ELSE IF tf.groups[name].output_vars = None
          THEN Abort(<<>>, "Cannot find output-vars.yaml") /\ UNCHANGED tf
          ELSE \E outcome \in IF tf.groups[name].output_vars[1].inventory_ordered = <<>>
                              THEN Outcomes \ {"known_hosts_failed"} ELSE Outcomes :
                  /\ tf' = [tf EXCEPT !.groups[name] = terraform_destroy(@, outcome)]
                  /\ IF outcome = "ok"
                     THEN Goto(next, <<Ev("destroy_group", name)>>)
                     ELSE Abort(<<Ev("destroy_group", name)>>, OutcomeError(outcome))
    /\ idx' = IF idx < Len(cfg.node_groups) THEN idx + 1 ELSE 1
    /\ UNCHANGED <<download_path, ret, cfg_file, cfg, load_result, tendermint_config, genesis_doc, fin_error,
                   cfgdir, op, nops>>

\* the end of network_destroy: terraform_destroy_monitoring, or not
network_destroy_monitoring ==
    /\ pc = "destroy_monitoring"
    /\ IF ~(cfg.monitoring.influxdb.enabled /\ cfg.monitoring.influxdb.deploy)
          \/ op.keep_monitoring
       THEN Return(<<>>) /\ UNCHANGED tf
       ELSE IF tf.monitoring.extra_vars = None
       THEN Abort(<<>>, "Cannot find terraform-extra-vars.yaml") /\ UNCHANGED tf
       ELSE IF tf.monitoring.output_vars = None
       THEN Abort(<<>>, "Cannot find terraform-output-vars.yaml") /\ UNCHANGED tf
       ELSE \E outcome \in Outcomes :
               /\ tf' = [tf EXCEPT !.monitoring = terraform_destroy(@, outcome)]
               /\ IF outcome = "ok"
                  THEN Return(<<Ev("destroy_monitoring", <<>>)>>)
                  ELSE Abort(<<Ev("destroy_monitoring", <<>>)>>, OutcomeError(outcome))
    /\ UNCHANGED <<download_path, ret, cfg_file, cfg, load_result, tendermint_config, genesis_doc, fin_error,
                   cfgdir, op, idx, nops>>

\* a loadtest start that provisions the fleet even if it has no host to aim at
loadtest_start_without_targets ==
    /\ pc = "loadtest_start"
    /\ IF ~od_has(cfg.load_tests, op.load_test_id)
       THEN Abort(<<>>, "Unrecognized load test ID") /\ UNCHANGED tf
       ELSE
       \E influxdb \in {get_influxdb_creds(cfg, tf.monitoring)},
          target_refs \in {as_testnet_node_refs(od_get(cfg.load_tests, op.load_test_id).targets)} :
          IF ~influxdb.ok THEN Abort(<<>>, influxdb.err) /\ UNCHANGED tf
          ELSE IF influxdb.val[1] = None \/ influxdb.val[2] = None
          THEN Abort(<<>>, "Cannot find InfluxDB configuration") /\ UNCHANGED tf
          ELSE IF ~target_refs.ok THEN Abort(<<>>, target_refs.err) /\ UNCHANGED tf
          ELSE \E targets \in {node_to_host_refs(tf.groups, target_refs.val, TRUE)} :
               IF ~targets.ok THEN Abort(<<>>, targets.err) /\ UNCHANGED tf
               ELSE \E outcome \in Outcomes :
                       /\ tf' = [tf EXCEPT !.load_tests[op.load_test_id] =
                                    terraform_deploy(@, [hosts |-> <<"tmbench0">>], outcome)]
                       /\ IF outcome = "ok"
                          THEN Return(<<Ev("deploy_load_test", <<op.load_test_id>>)>>)
                          ELSE Abort(<<Ev("deploy_load_test", <<op.load_test_id>>)>>,
                                     OutcomeError(outcome))
    /\ UNCHANGED <<download_path, ret, cfg_file, cfg, load_result, tendermint_config, genesis_doc, fin_error,
                   cfgdir, op, idx, nops>>

\* loadtest_start: the targets resolved to hosts, terraform_deploy_tmbench
loadtest_start ==
    /\ pc = "loadtest_start"
    /\ IF ~od_has(cfg.load_tests, op.load_test_id)
       THEN Abort(<<>>, "Unrecognized load test ID") /\ UNCHANGED tf
       ELSE
       \E influxdb \in {get_influxdb_creds(cfg, tf.monitoring)},
          target_refs \in {as_testnet_node_refs(od_get(cfg.load_tests, op.load_test_id).targets)} :
          IF ~influxdb.ok THEN Abort(<<>>, influxdb.err) /\ UNCHANGED tf
          ELSE IF influxdb.val[1] = None \/ influxdb.val[2] = None
          THEN Abort(<<>>, "Cannot find InfluxDB configuration") /\ UNCHANGED tf
          ELSE IF ~target_refs.ok THEN Abort(<<>>, target_refs.err) /\ UNCHANGED tf
          ELSE \E targets \in {node_to_host_refs(tf.groups, target_refs.val, TRUE)} :
               IF ~targets.ok THEN Abort(<<>>, targets.err) /\ UNCHANGED tf
               ELSE IF Len(targets.val) = 0
               THEN Abort(<<>>, "No target hosts for load test") /\ UNCHANGED tf
               ELSE \E outcome \in Outcomes :
                       /\ tf' = [tf EXCEPT !.load_tests[op.load_test_id] =
                                    terraform_deploy(@, [hosts |-> <<"tmbench0">>], outcome)]
                       /\ IF outcome = "ok"
                          THEN Return(<<Ev("deploy_load_test", <<op.load_test_id>>)>>)
                          ELSE Abort(<<Ev("deploy_load_test", <<op.load_test_id>>)>>,
                                     OutcomeError(outcome))
    /\ UNCHANGED <<download_path, ret, cfg_file, cfg, load_result, tendermint_config, genesis_doc, fin_error,
                   cfgdir, op, idx, nops>>

(***************************************************************************)
(* network start / stop: ansible_set_tendermint_nodes_state                *)
(***************************************************************************)
\* the Ansible state a command asks for
state_of(command) == IF command.name = "start" THEN "started" ELSE "stopped"

\* dict([(name, node_group.abci) for name, node_group in cfg.node_groups.items()])
node_group_abcis_of(c) ==
    [g \in Range(GroupNames(c)) |-> Group(c, g).abci]

\* the first loop of ansible_set_tendermint_nodes_state: the hostnames of the
\* groups that have an ABCI configuration, under the name of the GROUP
RECURSIVE hostnames_by_abci_from(_, _, _, _)
hostnames_by_abci_from(host_refs, node_group_abcis, i, acc) ==
    IF i > Len(host_refs) THEN acc
    ELSE Let(host_refs[i], LAMBDA host_ref :
         IF Get(node_group_abcis, host_ref.group, None) = None
         THEN hostnames_by_abci_from(host_refs, node_group_abcis, i + 1, acc)
         ELSE hostnames_by_abci_from(host_refs, node_group_abcis, i + 1,
                  od_set(acc, host_ref.group,
                         (IF od_has(acc, host_ref.group)
                          THEN od_get(acc, host_ref.group) ELSE <<>>)
                         \o <<host_ref.hostname>>)))

\* the playbook of an ABCI configuration for a state
abci_playbook(abci_config_name, state) ==
    <<"abci">> \o abci_config_name
        \o <<IF state \in {"started", "restarted"} THEN "start" ELSE "stop">>

\* what abci_playbook_cmds.append([(desc, "ansible-playbook", ..., playbook)])
\* appends: a list that holds ONE tuple
abci_playbook_cmd(abci_config_name, abci_hostnames, state) ==
    << <<"hosts for ABCI configuration", "ansible-playbook",
         [playbook |-> abci_playbook(abci_config_name, state),
          hosts |-> abci_hostnames, state |-> state]>> >>

\* ("Changing Tendermint nodes' state", tendermint_playbook_cmd): a pair
tendermint_playbook_cmd(hostnames, state) ==
    <<"Changing Tendermint nodes' state",
      [playbook |-> <<"tendermint-state.yaml">>, hosts |-> hostnames, state |-> state]>>

\* cmds: the ABCI entries before the core command when starting, after it
\* when stopping; abci_configs[abci_config_name] raises KeyError for a key
\* (a group name) that is not the name of an ABCI configuration
set_state_cmds(host_refs, node_group_abcis, abci_configs, state) ==
    Let(hostnames_by_abci_from(host_refs, node_group_abcis, 1, <<>>), LAMBDA hostnames_by_abci :
        IF \E i \in 1..Len(hostnames_by_abci) : hostnames_by_abci[i][1] \notin abci_configs
        THEN Raise("KeyError")
        ELSE Let([i \in 1..Len(hostnames_by_abci) |->
                     abci_playbook_cmd(hostnames_by_abci[i][1], hostnames_by_abci[i][2], state)],
                 LAMBDA abci_playbook_cmds :
             Let(<<tendermint_playbook_cmd(
                       [i \in 1..Len(host_refs) |-> host_refs[i].hostname], state)>>,
                 LAMBDA cmds :
                 Ok(IF state \in {"started", "restarted"}
                    THEN abci_playbook_cmds \o cmds
                    ELSE cmds \o abci_playbook_cmds))))

\* network_state with no node_or_group_ids: every group is a target
all_groups_refs(c) ==
    [i \in 1..Len(c.node_groups) |-> TestnetNodeRef(c.node_groups[i][1], None)]

\* the commands of the start/stop command in progress
current_cmds ==
    set_state_cmds(node_to_host_refs(tf.groups, all_groups_refs(cfg), op.fail_on_missing).val,
                   node_group_abcis_of(cfg), cfg.abci, state_of(op))

\* network_state and ansible_set_tendermint_nodes_state up to the try block
network_state ==
    /\ pc \in {"start", "stop"}
    /\ IF ~op.ec2_private_key_exists
       THEN Abort(<<>>, "Cannot find EC2 private key")
       ELSE \E host_refs \in {node_to_host_refs(tf.groups, all_groups_refs(cfg),
                                                op.fail_on_missing)} :
               IF ~host_refs.ok THEN Abort(<<>>, host_refs.err)
               ELSE IF Len(host_refs.val) = 0
               THEN Return(<<>>)      \* No deployed hosts' states to change
               ELSE IF ~current_cmds.ok THEN Abort(<<>>, current_cmds.err)
               ELSE Goto("set_state", <<>>)
    /\ idx' = 1
    /\ UNCHANGED <<download_path, ret, cfg_file, cfg, load_result, tendermint_config,
                   genesis_doc, fin_error, tf, cfgdir, op, nops>>

\* one iteration of the loop inside the try block: desc, cmd = desc_cmd, then
\* sh(cmd); any exception ends the loop, and is raised again under fail_on_error
ansible_set_tendermint_nodes_state ==
    /\ pc = "set_state"
    /\ \E cmds \in {current_cmds.val} :
       \E desc_cmd \in {cmds[idx]} :
          IF Len(desc_cmd) # 2
          THEN IF op.fail_on_error
               THEN Abort(<<>>, "ValueError")
               ELSE Return(<<Ev("skipped", <<"ValueError">>)>>)
          ELSE \E called \in {<<Ev("ansible_playbook", desc_cmd[2].playbook)>>} :
               \E sh_ok \in BOOLEAN :
                  IF sh_ok
                  THEN IF idx = Len(cmds) THEN Return(called) ELSE Goto(pc, called)
                  ELSE IF op.fail_on_error
                  THEN Abort(called, OutcomeError("sh_failed"))
                  ELSE Return(called \o <<Ev("skipped", <<OutcomeError("sh_failed")>>)>>)
    /\ idx' = IF idx < Len(current_cmds.val) THEN idx + 1 ELSE 1
    /\ UNCHANGED <<download_path, ret, cfg_file, cfg, load_result, tendermint_config,
                   genesis_doc, fin_error, tf, cfgdir, op, nops>>

(***************************************************************************)
(* The reconciler on its own: every configuration of two groups, the node  *)
(* directories as `tendermint testnet` leaves them, one finalize pass.     *)
(***************************************************************************)
SeedChoices(self, other) ==
    {<<>>,
     <<RefStr(other, None)>>,
     <<RefStr(self, Some(0))>>,
     <<RefStr(self, None), RefStr(other, Some(1))>>,
     <<RefStr(self, Some(-1))>>,
     <<RefStr(UnknownGroup, None)>>}

PeerChoices(self, other) ==
    {<<>>, <<RefStr(self, None)>>, <<RefStr(other, Some(0))>>}

FinGroupDicts(self, other) ==
    {[binary |-> "v0.32.0", regions |-> << <<"us_east_1", n>> >>,
      validators |-> v, in_genesis |-> g, use_seeds |-> s, persistent_peers |-> p] :
        n \in 0..MaxNodes, v \in BOOLEAN, g \in BOOLEAN,
        s \in SeedChoices(self, other), p \in PeerChoices(self, other)}

FinDocs ==
    {[id |-> "testnet",
      node_groups |-> << << <<"a">>, da >>, << <<"b">>, db >> >>] :
        da \in FinGroupDicts(<<"a">>, <<"b">>), db \in FinGroupDicts(<<"b">>, <<"a">>)}

\* the state in which network_reset calls tendermint_finalize_config: the
\* groups provisioned, their configuration generated and loaded
InitFin ==
    \E doc \in FinDocs :
    \E r \in {load_testnet_config(doc)} :
    \E dirs \in {[g \in Names |->
                    Some(GeneratedDir(g, Hostnames(g, NodeCount(Group(r.val, g))), 1))]} :
        /\ r.ok
        /\ cfg_file = doc
        /\ cfg = r.val
        /\ load_result = Some(r)
        /\ cfgdir = dirs
        /\ tendermint_config =
               [g \in Names |->
                   tendermint_load_nodes_config(g, dirs[g], Len(dirs[g][1].nodes)).val]
        /\ genesis_doc = None
        /\ fin_error = None
        /\ tf = [monitoring |-> NoWorkdir,
                 groups |-> [g \in Names |->
                    terraform_deploy(NoWorkdir,
                        [inventory_ordered |-> Hostnames(g, NodeCount(Group(r.val, g)))], "ok")],
                 load_tests |-> [l \in LoadTestIds |-> NoWorkdir]]
        /\ op = [name |-> "reset", ec2_private_key_exists |-> TRUE,
                 keep_existing_tendermint_config |-> FALSE]
        /\ pc = "finalize"
        /\ idx = 1
        /\ log = <<Ev("ensure_binaries", <<>>), Ev("generate_config", <<"a">>),
                   Ev("generate_config", <<"b">>)>>
        /\ exit_code = None
        /\ nops = 1
        /\ download_path = None
        /\ ret = None

NextFin == FinalizeBegin \/ FinalizeGroup \/ FinalizeWriteGenesis

SpecFin == InitFin /\ [][NextFin]_vars

(***************************************************************************)
(* Properties of the reconciler (checked on SpecFin)                       *)
(***************************************************************************)
FinalizeCompleted == pc = "ansible_deploy"

\* the k-th group's config.toml files have been written in this pass
GroupDone(k) ==
    \/ pc \in {"finalize_genesis", "ansible_deploy"}
    \/ pc \in {"finalize_group", "idle"} /\ idx > k

NodesOnDisk(g) == cfgdir[g][1].nodes

\* the peer id of node i of group g, from the files of its directory
PeerIdOnDisk(g, i) ==
    tendermint_peer_id(NodesOnDisk(g)[i].moniker, [sha256_20 |-> SubSeq(NodesOnDisk(g)[i].node_key, 33, 64)])

PeerIdsOnDisk(g) == {PeerIdOnDisk(g, i) : i \in 1..Len(NodesOnDisk(g))}

\* C1: after (and during) a finalize pass no node's written persistent_peers
\* or seeds value contains the node's own peer id, whatever whole-group,
\* indexed or self-referencing references its group lists.
C1_NeverOwnPeer ==
    \A g \in DOMAIN cfgdir : \A i \in 1..Len(NodesOnDisk(g)) :
        /\ PeerIdOnDisk(g, i) \notin NodesOnDisk(g)[i].p2p.persistent_peers
        /\ PeerIdOnDisk(g, i) \notin NodesOnDisk(g)[i].p2p.seeds

\* a finished pass over a two-node group that names itself as a whole group
\* in persistent_peers and one of its own nodes in use_seeds
C1_Witness ==
    /\ FinalizeCompleted
    /\ \E k \in 1..Len(cfg.node_groups) :
          LET g == cfg.node_groups[k][1]
              gc == cfg.node_groups[k][2]
          IN  /\ TestnetNodeRef(g, None) \in Range(gc.persistent_peers)
              /\ \E r \in Range(gc.use_seeds) : r.group = g /\ r.id # None
              /\ Len(NodesOnDisk(g)) = 2
              /\ NodesOnDisk(g)[1].p2p.persistent_peers = {PeerIdOnDisk(g, 2)}
              /\ NodesOnDisk(g)[2].p2p.persistent_peers = {PeerIdOnDisk(g, 1)}

\* the validator entries the flags and the node directories call for, groups
\* 1..k in declared order, nodes by index
RECURSIVE ExpectedValidators(_)
ExpectedValidators(k) ==
    IF k = 0 THEN <<>>
    ELSE LET g == cfg.node_groups[k][1]
             gc == cfg.node_groups[k][2]
         IN  ExpectedValidators(k - 1) \o
             (IF gc.validators = TRUE /\ gc.in_genesis = TRUE
              THEN [i \in 1..Len(NodesOnDisk(g)) |->
                       [address |-> NodesOnDisk(g)[i].priv_validator_key.address,
                        pub_key |-> NodesOnDisk(g)[i].priv_validator_key.pub_key,
                        power |-> gc.power,
                        name |-> NodesOnDisk(g)[i].moniker]]
              ELSE <<>>)

\* C2: in one finalize pass the genesis document is built once and every
\* node of every group is written the same content: a genesis file exists
\* only once the pass is complete, and then every node holds the one document
\* with the complete validator list.
C2_GenesisIdentical ==
    /\ \A g \in DOMAIN cfgdir : \A i \in 1..Len(NodesOnDisk(g)) :
           NodesOnDisk(g)[i].genesis_json # None
               => /\ FinalizeCompleted
                  /\ NodesOnDisk(g)[i].genesis_json = Some(genesis_doc)
                  /\ NodesOnDisk(g)[i].genesis_json[1].validators =
                         ExpectedValidators(Len(cfg.node_groups))
    /\ FinalizeCompleted
           => \A g \in DOMAIN cfgdir : \A i \in 1..Len(NodesOnDisk(g)) :
                  NodesOnDisk(g)[i].genesis_json # None

\* a finished pass with two groups of two validators each: four files, one document
C2_Witness ==
    /\ FinalizeCompleted
    /\ Len(genesis_doc.validators) = 4
    /\ \A g \in DOMAIN cfgdir :
           /\ Len(NodesOnDisk(g)) = 2
           /\ \A i \in 1..2 : NodesOnDisk(g)[i].genesis_json = Some(genesis_doc)

\* the reference cannot be resolved against the groups and their node counts
Unresolvable(ref) ==
    \/ ref.group \notin DOMAIN cfgdir
    \/ /\ ref.id # None
       /\ ~(0 - Len(NodesOnDisk(ref.group)) <= ref.id[1] /\ ref.id[1] < Len(NodesOnDisk(ref.group)))

\* C3: the validators list of the finished genesis document holds exactly
\* one entry per node of exactly the groups with validators = true and
\* in_genesis = true, in declared group order and then node index; a group
\* with in_genesis = false or with zero nodes contributes nothing, and the
\* pass fails for no other reason than a reference that cannot be resolved.
C3_ValidatorsExact ==
    /\ FinalizeCompleted => genesis_doc.validators = ExpectedValidators(Len(cfg.node_groups))
    /\ fin_error # None
           => \E r \in Range(Group(cfg, fin_error[1].group)[fin_error[1].list]) : Unresolvable(r)

\* a finished pass: the first group has no nodes, the second has two and is in
\* the genesis file; both carry validators = true and in_genesis = true
C3_Witness ==
    /\ FinalizeCompleted
    /\ \A k \in 1..2 : cfg.node_groups[k][2].validators /\ cfg.node_groups[k][2].in_genesis
    /\ Len(NodesOnDisk(cfg.node_groups[1][1])) = 0
    /\ Len(NodesOnDisk(cfg.node_groups[2][1])) = 2
    /\ Len(genesis_doc.validators) = 2
    /\ genesis_doc.validators[2].name = Hostname(cfg.node_groups[2][1], 1)

\* C4: a group whose use_seeds is the single whole-group reference to another
\* group H, declared before or after it, has the peer ids of all nodes of H
\* as the seeds of every one of its nodes; every node of a group whose
\* use_seeds and persistent_peers are both empty is written empty values.
C4_WholeGroupSeeds ==
    \A k \in 1..Len(cfg.node_groups) :
        LET g == cfg.node_groups[k][1]
            gc == cfg.node_groups[k][2]
        IN  GroupDone(k) =>
            /\ \A h \in DOMAIN cfgdir \ {g} :
                   gc.use_seeds = <<TestnetNodeRef(h, None)>>
                       => \A i \in 1..Len(NodesOnDisk(g)) :
                              NodesOnDisk(g)[i].p2p.seeds = PeerIdsOnDisk(h)
            /\ gc.use_seeds = <<>> /\ gc.persistent_peers = <<>>
                   => \A i \in 1..Len(NodesOnDisk(g)) :
                          NodesOnDisk(g)[i].p2p = [persistent_peers |-> {}, seeds |-> {}]

\* a finished pass in which the first group seeds from the second (a forward
\* reference), the second has two nodes and lists nothing
C4_Witness ==
    /\ FinalizeCompleted
    /\ LET g == cfg.node_groups[1][1]
           h == cfg.node_groups[2][1]
       IN  /\ cfg.node_groups[1][2].use_seeds = <<TestnetNodeRef(h, None)>>
           /\ cfg.node_groups[2][2].use_seeds = <<>>
           /\ cfg.node_groups[2][2].persistent_peers = <<>>
           /\ Len(NodesOnDisk(g)) = 2 /\ Len(NodesOnDisk(h)) = 2
           /\ Cardinality(NodesOnDisk(g)[2].p2p.seeds) = 2
           /\ NodesOnDisk(h)[1].p2p.seeds = {}

\* C5: a group G whose use_seeds is the indexed reference to its own node 0
\* does not make the pass fail; node 0 of G is written empty seeds and every
\* other node of G seeds holding exactly node 0's peer id.
C5_SelfIndexedSeed ==
    \A k \in 1..Len(cfg.node_groups) :
        LET g == cfg.node_groups[k][1]
            gc == cfg.node_groups[k][2]
        IN  gc.use_seeds = <<TestnetNodeRef(g, Some(0))>> /\ Len(NodesOnDisk(g)) >= 1
            => /\ fin_error # None
                      => ~(fin_error[1].group = g /\ fin_error[1].list = "use_seeds")
               /\ GroupDone(k)
                      => /\ NodesOnDisk(g)[1].p2p.seeds = {}
                         /\ \A i \in 2..Len(NodesOnDisk(g)) :
                                NodesOnDisk(g)[i].p2p.seeds = {PeerIdOnDisk(g, 1)}

\* a finished pass over a two-node group seeding from its own node 0
C5_Witness ==
    /\ FinalizeCompleted
    /\ \E k \in 1..Len(cfg.node_groups) :
          LET g == cfg.node_groups[k][1]
          IN  /\ cfg.node_groups[k][2].use_seeds = <<TestnetNodeRef(g, Some(0))>>
              /\ Len(NodesOnDisk(g)) = 2
              /\ NodesOnDisk(g)[1].p2p.seeds = {}
              /\ NodesOnDisk(g)[2].p2p.seeds = {PeerIdOnDisk(g, 1)}

\* C32: an indexed reference g[k] contributes the peer id of node k of group
\* g only when 0 <= k < number of nodes of g; for any other k, a negative one
\* in particular, the pass fails: a group the pass has dealt with lists
\* indexed references inside that range only, and its nodes hold the peer id
\* of the node of that index.
C32_IndexedInRange ==
    \A k \in 1..Len(cfg.node_groups) :
        LET g == cfg.node_groups[k][1]
            gc == cfg.node_groups[k][2]
        IN  GroupDone(k) =>
                \A r \in Range(gc.use_seeds) :
                    r.id # None =>
                        /\ r.group \in DOMAIN cfgdir
                        /\ 0 <= r.id[1] /\ r.id[1] < Len(NodesOnDisk(r.group))
                        /\ \A i \in 1..Len(NodesOnDisk(g)) :
                               PeerIdOnDisk(r.group, r.id[1] + 1)
                                   \in NodesOnDisk(g)[i].p2p.seeds \cup {PeerIdOnDisk(g, i)}

\* C35: if the pass fails while it resolves the references of some group
\* (unknown group, index out of range), no genesis file has been written to
\* any node in that pass: genesis files are written only after the peer
\* sets of all groups were computed and the configuration of every node was
\* written, in the one step that follows the loop over the groups.
C35_NoGenesisOnFailure ==
    /\ [](fin_error # None =>
             \A g \in DOMAIN cfgdir : \A i \in 1..Len(NodesOnDisk(g)) :
                 NodesOnDisk(g)[i].genesis_json = None)
    /\ [][(\E g \in DOMAIN cfgdir : \E i \in 1..Len(NodesOnDisk(g)) :
               NodesOnDisk(g)[i].genesis_json # NodesOnDisk(g)[i].genesis_json')
           => /\ pc = "finalize_genesis"
              /\ fin_error = None
              /\ \A k \in 1..Len(cfg.node_groups) : GroupDone(k)]_vars

\* the pass failed on the references of the second group, after the two
\* nodes of the first group were written their configuration
C35_Witness ==
    /\ fin_error # None
    /\ fin_error[1].group = cfg.node_groups[2][1]
    /\ pc = "idle"
    /\ Len(NodesOnDisk(cfg.node_groups[1][1])) = 2
    /\ NodesOnDisk(cfg.node_groups[1][1])[1].p2p.persistent_peers
           = {PeerIdOnDisk(cfg.node_groups[1][1], 2)}
    /\ \A g \in DOMAIN cfgdir : \A i \in 1..Len(NodesOnDisk(g)) :
           NodesOnDisk(g)[i].genesis_json = None

(***************************************************************************)
(* The tool: one configuration file, commands run one after the other      *)
(***************************************************************************)
OpsSeedChoices ==
    {<<>>,
     <<RefStr(<<"b">>, None)>>,
     <<RefStr(UnknownGroup, None)>>,
     <<RefStr(<<"b">>, Some(MaxNodes))>>,
     <<<<"b", "[", "x", "]">>>>}

OpsMonitoringChoices ==
    {EmptyDict,
     [influxdb |-> [enabled |-> TRUE, deploy |-> TRUE, password |-> "secret"]],
     [influxdb |-> [enabled |-> TRUE, url |-> "http://influx:8086", password |-> "secret"]]}

OpsLoadTestChoices ==
    {<<>>, << <<"lt", [method |-> "tm-bench", targets |-> <<RefStr(<<"a">>, None)>>]>> >>}

\* the ABCI configurations declared and the one group a names: none, one
\* that has the name of the group, one that has another name, and one of two
OpsAbciChoices ==
    {[configs |-> {}, group |-> EmptyDict],
     [configs |-> {<<"a">>}, group |-> [abci |-> <<"a">>]],
     [configs |-> {<<"k">>}, group |-> [abci |-> <<"k">>]],
     [configs |-> {<<"a">>, <<"k">>}, group |-> [abci |-> <<"k">>]]}

OpsDoc(m, s, l, x) ==
    [id |-> "testnet",
     monitoring |-> m,
     abci |-> x.configs,
     node_groups |->
         << << <<"a">>, [binary |-> "v0.32.0", regions |-> << <<"us_east_1", 1>> >>,
                         use_seeds |-> s] @@ x.group >>,
            << <<"b">>, [binary |-> "v0.32.0", validators |-> FALSE,
                         regions |-> << <<"us_east_1", 1>>, <<"eu_west_1", MaxNodes - 1>> >>] >> >>,
     load_tests |-> l]

\* the configuration files: every choice of monitoring, seeds and load tests
\* without ABCI, every choice of monitoring and ABCI without seeds and load
\* tests, and every choice of monitoring with a load test without targets
\* or with two load tests in either order
OpsDocs ==
    {OpsDoc(m, s, l, [configs |-> {}, group |-> EmptyDict]) :
        m \in OpsMonitoringChoices, s \in OpsSeedChoices, l \in OpsLoadTestChoices}
    \cup {OpsDoc(m, <<>>, <<>>, x) : m \in OpsMonitoringChoices, x \in OpsAbciChoices}
    \cup {OpsDoc(m, <<>>, l, [configs |-> {}, group |-> EmptyDict]) :
              m \in OpsMonitoringChoices,
              l \in {<< <<"lt", [method |-> "tm-bench"]>> >>,
                     << <<"lt", [method |-> "tm-bench", targets |-> <<RefStr(<<"a">>, None)>>]>>,
                        <<"lu", [method |-> "tm-bench", targets |-> <<RefStr(<<"b">>, Some(0))>>]>> >>,
                     << <<"lu", [method |-> "tm-bench", targets |-> <<RefStr(<<"b">>, Some(0))>>]>>,
                        <<"lt", [method |-> "tm-bench", targets |-> <<RefStr(<<"a">>, None)>>]>> >>}}

NoOp == [name |-> "none"]

Init ==
    /\ cfg_file \in OpsDocs
    /\ cfg = None
    /\ load_result = None
    /\ tendermint_config = EmptyDict
    /\ genesis_doc = None
    /\ fin_error = None
    /\ tf = [monitoring |-> NoWorkdir,
             groups |-> [g \in Names |-> NoWorkdir],
             load_tests |-> [l \in LoadTestIds |-> NoWorkdir]]
    /\ cfgdir = [g \in Names |-> None]
    /\ op = NoOp
    /\ pc = "idle"
    /\ idx = 0
    /\ log = <<>>
    /\ exit_code = None
    /\ nops = 0
    /\ download_path = None
    /\ ret = None

Next ==
    \/ \E command \in Commands : tmtestnet(command)
    \/ network_deploy
    \/ network_deploy_node_group
    \/ network_reset
    \/ network_reset_node_group
    \/ FinalizeBegin
    \/ FinalizeGroup
    \/ FinalizeWriteGenesis
    \/ ansible_deploy_tendermint
    \/ network_info
    \/ loadtest_destroy
    \/ network_destroy_node_group
    \/ network_destroy_monitoring
    \/ loadtest_start
    \/ network_state
    \/ ansible_set_tendermint_nodes_state

Spec == Init /\ [][Next]_vars

(***************************************************************************)
(* Properties of the commands (checked on Spec)                            *)
(***************************************************************************)
\* a command is running, or has run, on a configuration that loaded
Loaded == load_result # None /\ load_result[1].ok

\* the calls the command has issued so far, in order
Calls == SelectSeq(log, LAMBDA e : e.event \notin {"error", "skipped"})

Called(event, target) == \E i \in 1..Len(Calls) : Calls[i] = Ev(event, target)

PosIn(seq, x) == CHOOSE i \in 1..Len(seq) : seq[i] = x

\* an external command of the run failed (as opposed to a check of the tool)
ExternalFailure ==
    \E i \in 1..Len(log) :
        /\ log[i].event = "error"
        /\ log[i].target[1] \in {OutcomeError(o) : o \in Outcomes}

MonitoringDeployedByTool ==
    cfg.monitoring.influxdb.enabled /\ cfg.monitoring.influxdb.deploy

\* the reference names a declared group and, if indexed, one of its nodes
ResolvableIn(c, ref) ==
    /\ ref.group \in Range(GroupNames(c))
    /\ ref.id # None
           => 0 <= ref.id[1] /\ ref.id[1] < NodeCount(Group(c, ref.group))

\* C6: load_testnet_config rejects a configuration in which an entry of
\* use_seeds or persistent_peers names an undeclared group or carries an
\* index outside [0, node count of the group): a configuration that loads
\* holds resolvable references only.
C6_LoadRejectsUnresolvable ==
    Loaded =>
        \A k \in 1..Len(load_result[1].val.node_groups) :
            LET gc == load_result[1].val.node_groups[k][2]
            IN  \A r \in Range(gc.use_seeds) \cup Range(gc.persistent_peers) :
                    ResolvableIn(load_result[1].val, r)

\* where a call of network destroy stands in the order the claim gives
DestroyRank(e) ==
    IF e.event = "destroy_load_test"
    THEN PosIn(od_keys(cfg.load_tests), e.target[1])
    ELSE IF e.event = "destroy_group"
    THEN Len(cfg.load_tests) + Len(cfg.node_groups) + 1 - PosIn(GroupNames(cfg), e.target)
    ELSE Len(cfg.load_tests) + Len(cfg.node_groups) + 1

\* C7: network destroy issues its destroy commands in this order: the load
\* tests first (declared order), then the node groups in the reverse of
\* their declared order, then monitoring; monitoring is destroyed only when
\* it is enabled, deployed by the tool, and keep_monitoring is not set; a
\* destroy that returns 0 has destroyed every group, every load test that
\* had been deployed and, under that condition, monitoring.
C7_DestroyOrder ==
    Loaded /\ op.name = "destroy" =>
        /\ \A i \in 1..Len(Calls) :
              Calls[i].event \in {"destroy_load_test", "destroy_group", "destroy_monitoring"}
        /\ \A i, j \in 1..Len(Calls) :
              i < j => DestroyRank(Calls[i]) < DestroyRank(Calls[j])
        /\ Called("destroy_monitoring", <<>>)
              => MonitoringDeployedByTool /\ ~op.keep_monitoring
        /\ pc = "idle" /\ exit_code = Some(0)
              => /\ \A g \in Range(GroupNames(cfg)) : Called("destroy_group", g)
                 /\ \A l \in Range(od_keys(cfg.load_tests)) :
                        tf.load_tests[l].output_vars # None => Called("destroy_load_test", <<l>>)
                 /\ MonitoringDeployedByTool /\ ~op.keep_monitoring
                        => Called("destroy_monitoring", <<>>)

\* a destroy of a deployed network with a load test and monitoring
C7_Witness ==
    /\ op.name = "destroy"
    /\ pc = "idle"
    /\ exit_code = Some(0)
    /\ log = <<Ev("destroy_load_test", <<"lt">>), Ev("destroy_group", <<"b">>),
               Ev("destroy_group", <<"a">>), Ev("destroy_monitoring", <<>>)>>

\* C8: network destroy tolerates components that were never deployed: a
\* node group without recorded provisioning artifacts is skipped, and the
\* groups that have them, and monitoring, are still destroyed (unless an
\* external command fails).
C8_DestroyToleratesMissing ==
    Loaded /\ op.name = "destroy" /\ pc = "idle" /\ ~ExternalFailure =>
        /\ \A g \in Range(GroupNames(cfg)) :
              tf.groups[g].extra_vars # None /\ tf.groups[g].output_vars # None
                  => Called("destroy_group", g)
        /\ (/\ MonitoringDeployedByTool /\ ~op.keep_monitoring
            /\ tf.monitoring.extra_vars # None /\ tf.monitoring.output_vars # None)
              => Called("destroy_monitoring", <<>>)

\* C9: in network deploy the binaries are acquired before monitoring or any
\* node group is provisioned.
C9_BinariesBeforeProvisioning ==
    Loaded /\ op.name = "deploy" =>
        \A i \in 1..Len(Calls) :
            Calls[i].event \in {"deploy_monitoring", "deploy_group"}
                => \E j \in 1..(i - 1) : Calls[j].event = "ensure_binaries"

\* the calls of network deploy the ordering of C10 is about
DeployCalls ==
    SelectSeq(Calls, LAMBDA e : e.event \in {"deploy_monitoring", "deploy_group",
        "generate_config", "load_config", "finalize_config", "ansible_deploy"})

DeployRank(e) ==
    IF e.event = "deploy_monitoring" THEN 0
    ELSE IF e.event = "deploy_group" THEN PosIn(GroupNames(cfg), e.target)
    ELSE IF e.event \in {"generate_config", "load_config"}
    THEN Len(cfg.node_groups) + PosIn(GroupNames(cfg), e.target)
    ELSE IF e.event = "finalize_config" THEN 2 * Len(cfg.node_groups) + 1
    ELSE 2 * Len(cfg.node_groups) + 2

\* C10: in network deploy, monitoring (when enabled and deployed by the
\* tool) is provisioned before any node group, the node groups are
\* provisioned in declared order, the reconciler runs only after every node
\* group has been provisioned and its node configuration generated or
\* loaded, and before the configuration push.
C10_DeployOrder ==
    Loaded /\ op.name = "deploy" =>
        /\ \A i, j \in 1..Len(DeployCalls) :
              i < j => DeployRank(DeployCalls[i]) < DeployRank(DeployCalls[j])
        /\ Called("deploy_monitoring", <<>>) => MonitoringDeployedByTool
        /\ (\E g \in Names : Called("deploy_group", g)) /\ MonitoringDeployedByTool
              => Called("deploy_monitoring", <<>>)
        /\ Called("finalize_config", <<>>)
              => /\ DOMAIN tendermint_config = Range(GroupNames(cfg))
                 /\ \A g \in Range(GroupNames(cfg)) :
                        /\ Called("deploy_group", g)
                        /\ Called("generate_config", g) \/ Called("load_config", g)
        /\ (\E i \in 1..Len(Calls) : Calls[i].event = "ansible_deploy")
              => Called("finalize_config", <<>>)

\* a complete deploy with monitoring and two groups
C10_Witness ==
    /\ op.name = "deploy"
    /\ pc = "idle"
    /\ exit_code = Some(0)
    /\ DeployCalls = <<Ev("deploy_monitoring", <<>>), Ev("deploy_group", <<"a">>),
                       Ev("deploy_group", <<"b">>), Ev("generate_config", <<"a">>),
                       Ev("generate_config", <<"b">>), Ev("finalize_config", <<>>),
                       Ev("ansible_deploy", ansible_inventory(cfg, tf.groups))>>

(***************************************************************************)
(* Properties of start / stop and of failing commands (checked on Spec)    *)
(***************************************************************************)
\* the core playbook call that sets the service state
CoreStateCall == Ev("ansible_playbook", <<"tendermint-state.yaml">>)

\* C11: network deploy stops the services that may be running on the nodes
\* after the node groups are provisioned and before the node configuration
\* of any group is generated or loaded.
C11_StopBeforeConfig ==
    Loaded /\ op.name = "deploy" =>
        \A i \in 1..Len(Calls) :
            Calls[i].event \in {"generate_config", "load_config"}
                => \E j \in 1..(i - 1) :
                      /\ Calls[j] = CoreStateCall
                      /\ \A k \in 1..Len(Calls) : Calls[k].event = "deploy_group" => k < j

\* sh exited non-zero in the current command (raised, or caught and skipped)
ShFailed ==
    \E i \in 1..Len(log) :
        /\ log[i].event \in {"error", "skipped"}
        /\ log[i].target = <<OutcomeError("sh_failed")>>

\* the start/stop command has resolved the hosts of group g
HostsResolved(g) ==
    /\ op.ec2_private_key_exists
    /\ node_to_host_refs(tf.groups, all_groups_refs(cfg), op.fail_on_missing).ok
    /\ tf.groups[g].output_vars # None
    /\ tf.groups[g].output_vars[1].inventory_ordered # <<>>

\* C12: a start or stop that resolves hosts of a group with an ABCI
\* configuration runs the playbook of that configuration for the state, before
\* the core state command when starting and after it when stopping (unless an
\* external command fails).
C12_HookOrder ==
    Loaded /\ op.name \in {"start", "stop"} /\ pc = "idle" /\ ~ShFailed =>
        \A g \in Range(GroupNames(cfg)) :
            Group(cfg, g).abci # None /\ HostsResolved(g)
                => \E i \in 1..Len(Calls) :
                      /\ Calls[i] = Ev("ansible_playbook",
                                       abci_playbook(Group(cfg, g).abci[1], state_of(op)))
                      /\ \E j \in 1..Len(Calls) :
                            /\ Calls[j] = CoreStateCall
                            /\ IF op.name = "start" THEN i < j ELSE j < i

\* the command runs under fail_on_error = True (the default; only start and
\* stop take the parameter)
FailOnError == op.name \in {"start", "stop"} => op.fail_on_error

\* C13: under fail_on_error = True a failing external command ends the
\* command: the exception is the last entry of its log, the tool returns 1,
\* and no call follows it; in a deploy that fails while provisioning, the
\* reconciler is not run and nothing is pushed.
C13_FailureAborts ==
    /\ \A i \in 1..Len(log) :
          log[i] = Ev("error", <<OutcomeError("sh_failed")>>)
              => i = Len(log) /\ pc = "idle" /\ exit_code = Some(1)
    /\ FailOnError /\ ShFailed
          => /\ pc = "idle"
             /\ exit_code = Some(1)
             /\ log[Len(log)] = Ev("error", <<OutcomeError("sh_failed")>>)
    /\ (/\ ShFailed /\ op.name = "deploy"
        /\ Calls[Len(Calls)].event \in {"deploy_monitoring", "deploy_group"})
          => /\ ~Called("finalize_config", <<>>)
             /\ \A i \in 1..Len(Calls) : Calls[i].event # "ansible_deploy"
             /\ \A g \in Range(GroupNames(cfg)) :
                    Calls[Len(Calls)].event = "deploy_group"
                    /\ PosIn(GroupNames(cfg), g) > PosIn(GroupNames(cfg), Calls[Len(Calls)].target)
                        => ~Called("deploy_group", g)

\* a deploy whose provisioning of group a failed: group b is not provisioned
C13_Witness ==
    /\ op.name = "deploy"
    /\ pc = "idle"
    /\ exit_code = Some(1)
    /\ Len(log) >= 2
    /\ log[Len(log)] = Ev("error", <<OutcomeError("sh_failed")>>)
    /\ Calls[Len(Calls)] = Ev("deploy_group", <<"a">>)
    /\ ~tf.groups[<<"b">>].running

\* C14: under fail_on_error = False, when a command of the start/stop
\* sequence exits non-zero, the failure is logged, no exception reaches the
\* caller, and the remaining commands of the sequence are still executed.
C14_ContinuesAfterFailure ==
    (/\ Loaded /\ op.name \in {"start", "stop"} /\ pc = "idle"
     /\ \E i \in 1..Len(log) : log[i] = Ev("skipped", <<OutcomeError("sh_failed")>>))
        => /\ exit_code = Some(0)
           /\ Len(Calls) = Len(current_cmds.val)

(***************************************************************************)
(* Properties of info and reset, and the exit code (checked on Spec)       *)
(***************************************************************************)
\* what the tool keeps on disk: the configuration file, the work directories
\* with their recorded output, the node configuration, the binaries
OnDisk == <<cfg_file, tf, cfgdir, download_path>>

\* what network info reads can be read: the testnet home directory is there,
\* and so is the recorded output of a monitoring the tool deploys
InfoReadable ==
    /\ TestnetHomeExists
    /\ MonitoringDeployedByTool => tf.monitoring.output_vars # None

\* network info issues no external command, and where the home directory
\* and the monitoring output can be read it returns 0 whatever groups are
\* deployed
InfoSkipsMissing ==
    Loaded /\ op.name = "info" =>
        /\ \A i \in 1..Len(Calls) : Calls[i] = Ev("info", <<>>)
        /\ pc = "idle" /\ InfoReadable => exit_code = Some(0) /\ log = <<Ev("info", <<>>)>>

ResetCalls ==
    SelectSeq(Calls, LAMBDA e : e.event \notin {"deploy_monitoring", "deploy_group", "info"})

\* the i-th call of network_reset is the one its code makes in that place:
\* the binaries, the node configuration of each group in declared order
\* (generated or loaded), one finalize pass, the configuration push
IsResetCall(e, i) ==
    IF i = 1 THEN e = Ev("ensure_binaries", <<>>)
    ELSE IF i <= Len(cfg.node_groups) + 1
    THEN e.event \in {"generate_config", "load_config"} /\ e.target = GroupNames(cfg)[i - 1]
    ELSE IF i = Len(cfg.node_groups) + 2 THEN e = Ev("finalize_config", <<>>)
    ELSE i = Len(cfg.node_groups) + 3 /\ e.event = "ansible_deploy"

\* a reset issues the calls of network_reset and no other, a deploy issues
\* the same calls after its provisioning; one that returns 0 has issued all
ResetSequence ==
    Loaded /\ op.name \in {"reset", "deploy"} =>
        /\ op.name = "reset" => ResetCalls = Calls
        /\ \A i \in 1..Len(ResetCalls) : IsResetCall(ResetCalls[i], i)
        /\ pc = "idle" /\ exit_code = Some(0)
              => Len(ResetCalls) = Len(cfg.node_groups) + 3

\* C24: network reset never issues a provisioning command and leaves the
\* recorded provisioning output of every component as it is; it runs the
\* sequence that ends a deploy: the node configuration of every group
\* generated or loaded, one finalize pass, then the configuration push.
C24_ResetFrame ==
    /\ []ResetSequence
    /\ [][op'.name = "reset" => tf' = tf]_vars

\* a complete reset of a deployed network that keeps the node configuration
C24_Witness ==
    /\ op.name = "reset"
    /\ op.keep_existing_tendermint_config
    /\ pc = "idle"
    /\ exit_code = Some(0)
    /\ log = <<Ev("ensure_binaries", <<>>), Ev("load_config", <<"a">>),
               Ev("load_config", <<"b">>), Ev("finalize_config", <<>>),
               log[Len(log)]>>
    /\ log[Len(log)].event = "ansible_deploy"
    /\ \A g \in Names : tf.groups[g].output_vars # None /\ tf.groups[g].running

\* an exception reached tmtestnet: from the load or from the operation
Raised == \E i \in 1..Len(log) : log[i].event = "error"

\* C25: tmtestnet returns 0 if and only if the configuration loaded, the
\* command is one it has a function for, and that function returned without
\* raising; when the load fails or the command is unknown no operation runs
\* (no call is issued) and the exit code is 1; an exception raised by the
\* operation gives exit code 1.
C25_ExitCode ==
    IF pc = "idle"
    THEN nops > 0 =>
            /\ exit_code \in {Some(0), Some(1)}
            /\ exit_code = Some(0) <=> (Loaded /\ op.name # "unknown" /\ ~Raised)
            /\ ~Loaded \/ op.name = "unknown"
                  => Len(log) = 1 /\ log[1].event = "error" /\ exit_code = Some(1)
    ELSE exit_code = None /\ Loaded /\ op.name # "unknown" /\ ~Raised

\* a command tmtestnet has no function for, on a configuration that loads
C25_Witness ==
    /\ pc = "idle"
    /\ op.name = "unknown"
    /\ Loaded
    /\ exit_code = Some(1)
    /\ log = <<Ev("error", <<"Command/sub-command not yet supported">>)>>

(***************************************************************************)
(* Node indices and hosts (checked on Spec)                                *)
(***************************************************************************)
\* the groups whose provisioning output is recorded
Recorded == {g \in Names : tf.groups[g].output_vars # None}

\* C31: node index i of a group denotes the same host everywhere. Position i
\* of the recorded ordered inventory is the address the provisioning engine
\* reported for node<i>, in whatever order it reported regions and nodes;
\* node_to_host_refs gives that address the HostRef id i; the configuration
\* generated for node<i> carries that address as its hostname; and the
\* inventory written for the configuration push lists that address under
\* the alias <group>__node<i>.
C31_IndexDenotesHost ==
    Loaded =>
        /\ \A g \in Recorded :
             LET inv == tf.groups[g].output_vars[1].inventory_ordered
                 whole == node_to_host_refs(tf.groups, <<TestnetNodeRef(g, None)>>, TRUE)
             IN  /\ Len(inv) = NodeCount(Group(cfg, g))
                 /\ whole.ok /\ Len(whole.val) = Len(inv)
                 /\ \A i \in 0..(Len(inv) - 1) :
                        /\ inv[i + 1] = Hostname(g, i)
                        /\ whole.val[i + 1] = TestnetHostRef(g, i, Hostname(g, i))
                        /\ node_to_host_refs(tf.groups, <<TestnetNodeRef(g, Some(i))>>, TRUE)
                               = Ok(<<TestnetHostRef(g, i, Hostname(g, i))>>)
        /\ \A g \in Names :
               cfgdir[g] # None =>
                   \A i \in 0..(Len(cfgdir[g][1].nodes) - 1) :
                       cfgdir[g][1].nodes[i + 1].moniker = Hostname(g, i)
        /\ \A k \in 1..Len(log) :
               log[k].event = "ansible_deploy" =>
                   /\ \A g \in Range(GroupNames(cfg)) :
                      \A i \in 0..(NodeCount(Group(cfg, g)) - 1) :
                      \E n \in 1..Len(log[k].target) :
                          log[k].target[n].alias = <<g, i>>
                   /\ \A n \in 1..Len(log[k].target) :
                          /\ log[k].target[n].alias
                                 = <<log[k].target[n].node_group, log[k].target[n].node_id>>
                          /\ log[k].target[n].ansible_host
                                 = Hostname(log[k].target[n].node_group,
                                            log[k].target[n].node_id)

\* a deploy that went through: group b has a node in each of two regions,
\* its second node is known under index 1 to the inventory, to the
\* generated configuration and to the configuration push
C31_Witness ==
    /\ op.name = "deploy"
    /\ pc = "idle"
    /\ exit_code = Some(0)
    /\ tf.groups[<<"b">>].output_vars # None
    /\ tf.groups[<<"b">>].output_vars[1].inventory_ordered
           = <<Hostname(<<"b">>, 0), Hostname(<<"b">>, 1)>>
    /\ cfgdir[<<"b">>] # None
    /\ cfgdir[<<"b">>][1].gen = nops
    /\ cfgdir[<<"b">>][1].nodes[2].moniker = Hostname(<<"b">>, 1)
    /\ \E k \in 1..Len(log) :
           /\ log[k].event = "ansible_deploy"
           /\ \E n \in 1..Len(log[k].target) :
                  log[k].target[n] = [alias |-> <<<<"b">>, 1>>,
                                      ansible_host |-> Hostname(<<"b">>, 1),
                                      node_group |-> <<"b">>, node_id |-> 1]

\* the groups network destroy has destroyed: the playbook ran with state
\* absent and the resources are gone
Destroyed == {g \in Names : tf.groups[g].extra_vars = Some("absent") /\ ~tf.groups[g].running}

\* C33: after network destroy has destroyed a node group, later operations
\* see the group as absent: node_to_host_refs resolves a reference to it to
\* no host (it skips the reference, or raises under fail_on_missing), and a
\* start or stop runs its playbook on no host of a destroyed group.
C33_DestroyedIsAbsent ==
    /\ \A g \in Destroyed :
           /\ node_to_host_refs(tf.groups, <<TestnetNodeRef(g, None)>>, FALSE) = Ok(<<>>)
           /\ ~node_to_host_refs(tf.groups, <<TestnetNodeRef(g, None)>>, TRUE).ok
    /\ pc = "set_state" =>
           \A k \in 1..Len(current_cmds.val) :
               Len(current_cmds.val[k]) = 2 =>
                   \A n \in 1..Len(current_cmds.val[k][2].hosts) :
                       current_cmds.val[k][2].hosts[n][2] \notin Destroyed

(***************************************************************************)
(* The node configuration across runs (checked on Spec)                    *)
(***************************************************************************)
\* the key material and the peer id of each node in a configuration directory
Identities(dir) ==
    [i \in 1..Len(dir.nodes) |->
        [node_key |-> dir.nodes[i].node_key,
         priv_validator_key |-> dir.nodes[i].priv_validator_key,
         peer_id |-> tendermint_peer_id(dir.nodes[i].moniker,
                         [sha256_20 |-> SubSeq(dir.nodes[i].node_key, 33, 64)])]]

\* C36: with keep_existing_tendermint_config set and a configuration
\* directory present for a group, tendermint_generate_config neither deletes
\* the directory nor runs the generator, so through any number of reset and
\* deploy runs with the flag every node of the group keeps its key material
\* and its peer id; without the flag the existing directory is removed
\* before the generator is run, and nothing of it is left.
C36_KeepExisting ==
    /\ [][\A g \in Names :
              /\ pc = "generate_config" /\ cfg.node_groups[idx][1] = g /\ cfgdir[g] # None
              /\ cfg.node_groups[idx][2].generate_tendermint_config
              => IF op.keep_existing_tendermint_config
                 THEN /\ cfgdir'[g] = cfgdir[g]
                      /\ \A k \in 1..Len(log') : log'[k].event # "generate_config"
                 ELSE /\ log'[Len(log) + 1] = Ev("generate_config", g)
                      /\ cfgdir'[g][1].gen = nops /\ cfgdir[g][1].gen < nops
                      /\ \A i \in 1..Len(cfgdir'[g][1].nodes) :
                         \A j \in 1..Len(cfgdir[g][1].nodes) :
                             Identities(cfgdir'[g][1])[i] # Identities(cfgdir[g][1])[j]]_vars
    /\ [][\A g \in Names :
              /\ op'.name \in {"reset", "deploy"}
              /\ op'.keep_existing_tendermint_config
              /\ cfgdir[g] # None
              => /\ cfgdir'[g] # None
                 /\ Identities(cfgdir'[g][1]) = Identities(cfgdir[g][1])]_vars

\* the third run, a reset that keeps the configuration, has gone through:
\* the nodes of group b hold the keys of the first run and the genesis
\* document of the third
C36_Witness ==
    /\ nops = 3
    /\ op.name = "reset"
    /\ op.keep_existing_tendermint_config
    /\ pc = "idle"
    /\ exit_code = Some(0)
    /\ cfgdir[<<"b">>] # None
    /\ cfgdir[<<"b">>][1].gen = 1
    /\ Len(cfgdir[<<"b">>][1].nodes) = 2
    /\ Identities(cfgdir[<<"b">>][1])
           = Identities(GeneratedDir(<<"b">>, Hostnames(<<"b">>, 2), 1))
    /\ cfgdir[<<"b">>][1].nodes[1].genesis_json # None
    /\ cfgdir[<<"b">>][1].nodes[1].genesis_json[1].genesis_time = 3

(***************************************************************************)
(* Load tests (checked on Spec)                                            *)
(***************************************************************************)
\* what loadtest start asks for before it provisions: the load test id is
\* configured, there are monitoring credentials, and the targets resolve,
\* with fail_on_missing = True, to one host at least
CanStartLoadTest ==
    /\ od_has(cfg.load_tests, op.load_test_id)
    /\ LET creds == get_influxdb_creds(cfg, tf.monitoring)
           refs == as_testnet_node_refs(od_get(cfg.load_tests, op.load_test_id).targets)
       IN  /\ creds.ok /\ creds.val[1] # None /\ creds.val[2] # None
           /\ refs.ok
           /\ node_to_host_refs(tf.groups, refs.val, TRUE).ok
           /\ Len(node_to_host_refs(tf.groups, refs.val, TRUE).val) > 0

\* the load test's work directory holds the two files of a deployment
LoadTestRecorded(l) ==
    tf.load_tests[l].extra_vars # None /\ tf.load_tests[l].output_vars # None

\* what the commands on load tests have done once they are over
LoadTestCommands ==
    Loaded =>
        /\ op.name = "loadtest_start" /\ pc = "idle"
              => IF CanStartLoadTest
                 THEN Calls = <<Ev("deploy_load_test", <<op.load_test_id>>)>>
                 ELSE Calls = <<>> /\ exit_code = Some(1)
        /\ op.name = "loadtest_destroy"
              => /\ \A i \in 1..Len(Calls) :
                        /\ Calls[i].event = "destroy_load_test"
                        /\ od_has(cfg.load_tests, Calls[i].target[1])
                        /\ \A j \in (i + 1)..Len(Calls) :
                               PosIn(od_keys(cfg.load_tests), Calls[i].target[1])
                                   < PosIn(od_keys(cfg.load_tests), Calls[j].target[1])
                 /\ exit_code = Some(1) => ExternalFailure
                 /\ pc = "idle" /\ exit_code = Some(0)
                       => \A l \in Range(od_keys(cfg.load_tests)) :
                              LoadTestRecorded(l) <=> Called("destroy_load_test", <<l>>)

\* C37: loadtest start provisions a load-test fleet only when the load test
\* id is configured, monitoring credentials are available and its target
\* references resolve (with fail_on_missing = true) to at least one host; in
\* every other case it fails before any provisioning command is issued and
\* leaves the recorded provisioning state alone. loadtest destroy stops the
\* configured load tests in declared order with fail_on_missing = false: a
\* load test that was never deployed is skipped without error.
C37_LoadTestGuards ==
    /\ []LoadTestCommands
    /\ [][pc = "loadtest_start" /\ ~CanStartLoadTest => tf' = tf]_vars

\* a loadtest destroy of two load tests, both started before: they are
\* stopped in the order in which the configuration declares them, lu first
C37_Witness ==
    /\ op.name = "loadtest_destroy"
    /\ pc = "idle"
    /\ exit_code = Some(0)
    /\ od_keys(cfg.load_tests) = <<"lu", "lt">>
    /\ log = <<Ev("destroy_load_test", <<"lu">>), Ev("destroy_load_test", <<"lt">>)>>
    /\ \A l \in LoadTestIds : ~tf.load_tests[l].running

(***************************************************************************)
(* The functions on their own: one call of a function on each input        *)
(***************************************************************************)
\* the references of the calls: groups a and b, a group that does not
\* exist, indices inside and outside group a
CallRefs ==
    {TestnetNodeRef(<<"a">>, None), TestnetNodeRef(<<"b">>, None),
     TestnetNodeRef(<<"a">>, Some(0)), TestnetNodeRef(<<"a">>, Some(1)),
     TestnetNodeRef(<<"a">>, Some(MaxNodes)), TestnetNodeRef(<<"a">>, Some(-1)),
     TestnetNodeRef(UnknownGroup, None)}

\* the work directory of a group: never deployed, or deployed with n hosts
CallWorkdirs(g) ==
    {NoWorkdir}
    \cup {terraform_deploy(NoWorkdir, [inventory_ordered |-> Hostnames(g, n)], "ok") :
             n \in 0..MaxNodes}

\* the reference strings: a group name, then nothing or an index in brackets
CallRefStrings ==
    {g \o i : g \in {<<"a">>, <<"a", "b">>, <<"a", "-", "1">>, <<"a", ".">>, <<>>},
              i \in {<<>>}
                    \cup {<<"[">> \o k \o c :
                             k \in {<<"0">>, <<"1">>, <<"1", "0">>, <<"0", "1">>,
                                    <<"-", "1">>, <<"-", "0">>, <<"+", "1">>, <<" ", "1">>,
                                    <<"1", " ">>, <<"1", "_", "0">>, <<"_", "1">>,
                                    <<"x">>, <<>>},
                             c \in {<<"]">>, <<>>, <<"]", "]">>, <<"]", "[", "0", "]">>}}}

\* the entries <<region id, node count>> of the region lists
CallRegionEntries ==
    {<<r, n>> : r \in {"us_east_1", "eu_west_1", "mars_north_1"}, n \in (-1)..MaxNodes}

\* configuration files: of one group, with and without the regions key; of
\* one or two groups of one and two nodes under names with and without a
\* character outside the charset, with a reference to such a name or none;
\* without the id key, without the node_groups key, without both
CallDocs ==
    {[id |-> "testnet",
      node_groups |-> << << <<"a">>, [binary |-> "v0.32.0", regions |-> l] >> >>] :
        l \in {<<>>} \cup {<<x>> : x \in CallRegionEntries}
              \cup {<<x, y>> : x, y \in CallRegionEntries}}
    \cup {[id |-> "testnet", node_groups |-> << << <<"a">>, [binary |-> "v0.32.0"] >> >>]}
    \cup {[id |-> "testnet",
           node_groups |->
               SubSeq(<< <<n1, [binary |-> "v0.32.0", regions |-> << <<"us_east_1", 1>> >>,
                               use_seeds |-> s] >>,
                         <<n2, [binary |-> "v0.32.0", regions |-> << <<"us_east_1", 2>> >>] >> >>,
                      1, k)] :
             n1, n2 \in {<<"a">>, <<"b">>, <<"a", ".">>, <<"a", "-", "1">>, <<"b", " ">>},
             s \in {<<>>, << <<"b">> >>, << <<"a", ".">> >>, << <<"b", " ", "[", "0", "]">> >>},
             k \in 1..2}
    \cup {[node_groups |-> << << <<"a">>, [binary |-> "v0.32.0",
                                          regions |-> << <<"us_east_1", 1>> >>] >> >>],
          [id |-> "testnet"],
          [id |-> "testnet", monitoring |-> EmptyDict, load_tests |-> <<>>],
          EmptyDict}

FnCalls ==
    [name : {"node_to_host_refs"}, groups : [Names -> UNION {CallWorkdirs(g) : g \in Names}],
     refs : {<<>>} \cup {<<x>> : x \in CallRefs} \cup {<<x, y>> : x, y \in CallRefs}
            \cup {<<x, y, z>> : x, y, z \in CallRefs},
     fail_on_missing : BOOLEAN]
    \cup [name : {"as_testnet_node_ref"}, s : CallRefStrings]
    \cup [name : {"parse_regions_list"},
          regions_list : {<<>>} \cup {<<x>> : x \in CallRegionEntries}
                         \cup {<<x, y>> : x, y \in CallRegionEntries}
                         \cup {<<x, y, z>> : x, y, z \in CallRegionEntries}]
    \cup [name : {"load_testnet_config"}, doc : CallDocs]
    \cup [name : {"ensure_tendermint_binaries"},
          binaries : UNION {[1..n -> {None, Some("v0.32.0"), Some("v0.31.5"),
                                     Some("/usr/bin/tendermint")}] : n \in 0..3},
          available : SUBSET {"v0.32.0", "v0.31.5", "/usr/bin/tendermint"}]
    \cup [name : {"get_ed25519_pub_key"},
          priv_key_bytes : {[k \in 1..n |-> IF k \in nonzero THEN v ELSE 0] :
                               n \in {0, 32, 63, 64, 65},
                               nonzero \in {{}, {1}, {32}, {1, 32}, {33}, {64}, 1..65},
                               v \in {1, 255}}]

InitCalls ==
    /\ op \in FnCalls
    /\ op.name = "node_to_host_refs"
           => \A g \in Names : op.groups[g] \in CallWorkdirs(g)
    /\ pc = "call"
    /\ ret = None
    /\ cfg_file = EmptyDict
    /\ cfg = None
    /\ load_result = None
    /\ tendermint_config = EmptyDict
    /\ genesis_doc = None
    /\ fin_error = None
    /\ tf = [monitoring |-> NoWorkdir,
             groups |-> [g \in Names |-> NoWorkdir],
             load_tests |-> [l \in LoadTestIds |-> NoWorkdir]]
    /\ cfgdir = [g \in Names |-> None]
    /\ idx = 0
    /\ log = <<>>
    /\ exit_code = None
    /\ nops = 0
    /\ download_path = None

Returns(name, result) ==
    /\ pc = "call"
    /\ op.name = name
    /\ ret' = Some(result)
    /\ pc' = "returned"
    /\ UNCHANGED <<cfg_file, cfg, load_result, tendermint_config, genesis_doc, fin_error,
                   tf, cfgdir, op, idx, log, exit_code, nops, download_path>>

Call_node_to_host_refs ==
    /\ op.name = "node_to_host_refs"
    /\ Returns("node_to_host_refs",
               node_to_host_refs(op.groups, op.refs, op.fail_on_missing))

\* parsed, and formatted back when the string is accepted
Call_as_testnet_node_ref ==
    /\ op.name = "as_testnet_node_ref"
    /\ \E ref \in {as_testnet_node_ref(op.s)} :
          Returns("as_testnet_node_ref",
                  IF ref.ok THEN Ok([ref |-> ref.val, str |-> testnet_node_ref_to_str(ref.val)])
                  ELSE ref)

Call_parse_regions_list ==
    /\ op.name = "parse_regions_list"
    /\ Returns("parse_regions_list", parse_regions_list(Some(op.regions_list)))

Call_load_testnet_config ==
    /\ op.name = "load_testnet_config"
    /\ Returns("load_testnet_config", load_testnet_config(op.doc))

\* the public key of the private key, and the peer id derived from it
Call_get_ed25519_pub_key ==
    /\ op.name = "get_ed25519_pub_key"
    /\ \E pub_key \in {get_ed25519_pub_key(op.priv_key_bytes)} :
          Returns("get_ed25519_pub_key",
                  IF pub_key.ok
                  THEN Ok([pub_key |-> pub_key.val, id |-> ed25519_pub_key_to_id(pub_key.val)])
                  ELSE pub_key)

\* the node groups g1, g2, ... with the binaries of the call
Call_ensure_tendermint_binaries ==
    /\ op.name = "ensure_tendermint_binaries"
    /\ Returns("ensure_tendermint_binaries",
               ensure_tendermint_binaries(
                   [i \in 1..Len(op.binaries) |-> << <<"g", DigitChar(i)>>,
                                                     [binary |-> op.binaries[i]] >>],
                   op.available))

NextCalls ==
    \/ Call_ensure_tendermint_binaries
    \/ Call_get_ed25519_pub_key
    \/ Call_node_to_host_refs
    \/ Call_as_testnet_node_ref
    \/ Call_parse_regions_list
    \/ Call_load_testnet_config

SpecCalls == InitCalls /\ [][NextCalls]_vars

(***************************************************************************)
(* Properties of the functions (checked on SpecCalls)                      *)
(***************************************************************************)
Returned(name) == pc = "returned" /\ op.name = name

\* the reference names a group with recorded output and, if indexed, one of
\* its entries
HasHost(groups, ref) ==
    /\ ref.group \in DOMAIN groups
    /\ groups[ref.group].output_vars # None
    /\ ref.id # None
           => /\ 0 <= ref.id[1]
              /\ ref.id[1] < Len(groups[ref.group].output_vars[1].inventory_ordered)

\* the hostnames a reference with hosts stands for, in inventory order
HostnamesOf(groups, ref) ==
    LET inv == groups[ref.group].output_vars[1].inventory_ordered
    IN  IF ref.id = None THEN inv ELSE <<inv[ref.id[1] + 1]>>

\* the hostnames of all the references that have hosts, in reference order,
\* repetitions included
RECURSIVE HostnamesInOrder(_, _)
HostnamesInOrder(groups, refs) ==
    IF refs = <<>> THEN <<>>
    ELSE (IF HasHost(groups, Head(refs)) THEN HostnamesOf(groups, Head(refs)) ELSE <<>>)
         \o HostnamesInOrder(groups, Tail(refs))

FirstPos(seq, x) == CHOOSE i \in 1..Len(seq) : seq[i] = x /\ \A j \in 1..(i - 1) : seq[j] # x

\* C15: with fail_on_missing = False node_to_host_refs never raises for a
\* reference to a group without recorded output or with an index out of
\* range: the reference contributes no host and the others are resolved
\* (only such references: the empty list); with fail_on_missing = True the
\* same references raise and no list is returned.
C15_SkipOrRaise ==
    Returned("node_to_host_refs") =>
        LET r == ret[1]
            all == HostnamesInOrder(op.groups, op.refs)
        IN  /\ ~op.fail_on_missing
                  => /\ r.ok
                     /\ {r.val[i].hostname : i \in 1..Len(r.val)} = Range(all)
                     /\ (\A i \in 1..Len(op.refs) : ~HasHost(op.groups, op.refs[i]))
                            => r.val = <<>>
            /\ op.fail_on_missing
                  => /\ r.ok <=> \A i \in 1..Len(op.refs) : HasHost(op.groups, op.refs[i])
                     /\ ~r.ok => "val" \notin DOMAIN r

\* an absent group and an index out of range are skipped, the group after
\* them is resolved
C15_Witness ==
    /\ Returned("node_to_host_refs")
    /\ ~op.fail_on_missing
    /\ op.refs = <<TestnetNodeRef(UnknownGroup, None), TestnetNodeRef(<<"a">>, Some(MaxNodes)),
                   TestnetNodeRef(<<"b">>, None)>>
    /\ op.groups[<<"a">>].output_vars # None
    /\ ret[1].ok
    /\ Len(ret[1].val) = MaxNodes
    /\ \A i \in 1..MaxNodes : ret[1].val[i].group = <<"b">>

\* C16: the list node_to_host_refs returns holds no hostname twice; the
\* hostnames stand in the order of their first occurrence in reference
\* order, and the id of an entry is the index of its hostname in the
\* recorded inventory of its group.
C16_NoDuplicateHosts ==
    Returned("node_to_host_refs") /\ ret[1].ok =>
        LET val == ret[1].val
            all == HostnamesInOrder(op.groups, op.refs)
        IN  /\ \A i, j \in 1..Len(val) : i # j => val[i].hostname # val[j].hostname
            /\ \A i, j \in 1..Len(val) :
                  i < j => FirstPos(all, val[i].hostname) < FirstPos(all, val[j].hostname)
            /\ \A i \in 1..Len(val) :
                  /\ val[i].group \in DOMAIN op.groups
                  /\ op.groups[val[i].group].output_vars # None
                  /\ val[i].id \in 0..(Len(op.groups[val[i].group].output_vars[1].inventory_ordered) - 1)
                  /\ op.groups[val[i].group].output_vars[1].inventory_ordered[val[i].id + 1]
                         = val[i].hostname

\* node 1 of group a named before the whole group and again after it
C16_Witness ==
    /\ Returned("node_to_host_refs")
    /\ op.refs = <<TestnetNodeRef(<<"a">>, Some(1)), TestnetNodeRef(<<"a">>, None),
                   TestnetNodeRef(<<"a">>, Some(1))>>
    /\ ret[1].ok
    /\ Len(ret[1].val) = 2
    /\ ret[1].val[1] = TestnetHostRef(<<"a">>, 1, Hostname(<<"a">>, 1))
    /\ ret[1].val[2] = TestnetHostRef(<<"a">>, 0, Hostname(<<"a">>, 0))

\* the string reads g[k]: one opening bracket, one closing bracket, at the end
OfFormGroupIndex(s) ==
    /\ CountChar(s, "[") = 1
    /\ CountChar(s, "]") = 1
    /\ s[Len(s)] = "]"

\* the string reads g: no bracket
OfFormGroup(s) == CountChar(s, "[") = 0 /\ CountChar(s, "]") = 0

\* C17: a string of the form g[k], or of the form g, that
\* as_testnet_node_ref accepts is given back unchanged by
\* testnet_node_ref_to_str.
C17_RoundTrip ==
    (/\ Returned("as_testnet_node_ref") /\ ret[1].ok
     /\ OfFormGroupIndex(op.s) \/ OfFormGroup(op.s))
        => ret[1].val.str = op.s

\* the sum of the node counts of the first n entries of a region list
RECURSIVE CountBefore(_, _)
CountBefore(regions_list, n) ==
    IF n = 0 THEN 0 ELSE CountBefore(regions_list, n - 1) + regions_list[n][2]

\* the node indices of a region: [start_id, start_id + node_count)
IndexRange(region) == region.start_id..(region.start_id + region.node_count - 1)

\* C18: for every region list parse_regions_list accepts, the start_id of
\* the i-th listed region is the sum of the node counts of the regions
\* listed before it, a supported region that is not listed has node count 0,
\* the total is the sum of all the node counts, and so the index ranges of
\* the regions are pairwise disjoint and cover 0..total-1.
C18_RegionRanges ==
    Returned("parse_regions_list") /\ ret[1].ok =>
        LET l == op.regions_list
            val == ret[1].val
            total == SumNodeCount(val, SUPPORTED_REGIONS)
        IN  /\ DOMAIN val = SUPPORTED_REGIONS
            /\ \A i \in 1..Len(l) :
                  /\ val[l[i][1]].node_count = l[i][2]
                  /\ val[l[i][1]].start_id = CountBefore(l, i - 1)
            /\ \A r \in SUPPORTED_REGIONS \ {l[i][1] : i \in 1..Len(l)} :
                  val[r].node_count = 0
            /\ total = CountBefore(l, Len(l))
            /\ \A r1, r2 \in SUPPORTED_REGIONS :
                  r1 # r2 => IndexRange(val[r1]) \cap IndexRange(val[r2]) = {}
            /\ UNION {IndexRange(val[r]) : r \in SUPPORTED_REGIONS} = 0..(total - 1)

\* C19: every node group of a configuration that load_testnet_config accepts
\* has a region with a node count above 0, names supported regions only, and
\* names no region twice.
C19_RegionsValidated ==
    Returned("load_testnet_config") /\ ret[1].ok /\ "node_groups" \in DOMAIN op.doc =>
        \A k \in 1..Len(op.doc.node_groups) :
            LET d == op.doc.node_groups[k][2]
            IN  /\ "regions" \in DOMAIN d
                /\ \E i \in 1..Len(d.regions) : d.regions[i][2] > 0
                /\ \A i \in 1..Len(d.regions) : d.regions[i][1] \in SUPPORTED_REGIONS
                /\ \A i, j \in 1..Len(d.regions) :
                       i # j => d.regions[i][1] # d.regions[j][1]
                /\ \E r \in SUPPORTED_REGIONS :
                       od_get(ret[1].val.node_groups, op.doc.node_groups[k][1]).regions[r].node_count > 0

\* the error of a load that stopped for the lack of a top-level key names the key
NamesMissingKey(err, key) ==
    /\ key = "id" => err = "Missing required id parameter in configuration file"
    /\ key = "node_groups" => err = "Missing required node_groups parameter in configuration file"

\* C26: load_testnet_config fails, with an error that names the key, for a
\* configuration without the id key and for one without the node group
\* list: a configuration that it accepts has both.
C26_RequiredKeys ==
    Returned("load_testnet_config") =>
        /\ ret[1].ok => {"id", "node_groups"} \subseteq DOMAIN op.doc
        /\ \A key \in {"id", "node_groups"} \ DOMAIN op.doc :
               ~ret[1].ok /\ \E k \in {"id", "node_groups"} \ DOMAIN op.doc :
                                 NamesMissingKey(ret[1].err, k)

InCharset(n) == \A i \in 1..Len(n) : n[i] \in ALLOWED_GROUP_NAME_CHARSET

\* C27: every group name of a configuration that load_testnet_config
\* accepts, the names of the declared node groups and the group names of
\* the use_seeds and persistent_peers references, consists of letters,
\* digits, '_' and '-' only.
C27_NamesInCharset ==
    Returned("load_testnet_config") /\ ret[1].ok =>
        \A k \in 1..Len(ret[1].val.node_groups) :
            LET name == ret[1].val.node_groups[k][1]
                gc == ret[1].val.node_groups[k][2]
            IN  /\ InCharset(name)
                /\ \A r \in Range(gc.use_seeds) \cup Range(gc.persistent_peers) :
                       InCharset(r.group)

\* C28: the names of the node groups of a configuration that
\* load_testnet_config accepts are distinct in the file, and the loaded
\* configuration has one group for each entry of the list, in the order of
\* the list.
C28_NamesUnique ==
    Returned("load_testnet_config") /\ ret[1].ok /\ "node_groups" \in DOMAIN op.doc =>
        /\ \A i, j \in 1..Len(op.doc.node_groups) :
               i # j => op.doc.node_groups[i][1] # op.doc.node_groups[j][1]
        /\ Len(ret[1].val.node_groups) = Len(op.doc.node_groups)
        /\ \A i \in 1..Len(op.doc.node_groups) :
               ret[1].val.node_groups[i][1] = op.doc.node_groups[i][1]

\* C29: get_ed25519_pub_key returns bytes 32..64 of the decoded private key
\* exactly when the key is 64 bytes long and those 32 bytes are not all
\* zero; for any other length, and for a second half of zeros, it raises
\* and no peer id is derived; the peer id is a function of the bytes it
\* returns.
C29_PubKeyHalf ==
    Returned("get_ed25519_pub_key") =>
        LET b == op.priv_key_bytes
        IN  /\ ret[1].ok <=> (Len(b) = 64 /\ \E k \in 33..64 : b[k] # 0)
            /\ ret[1].ok
                  => /\ ret[1].val.pub_key = [k \in 1..32 |-> b[32 + k]]
                     /\ ret[1].val.id = ed25519_pub_key_to_id([k \in 1..32 |-> b[32 + k]])
            /\ ~ret[1].ok => "val" \notin DOMAIN ret[1]

\* a key of 64 bytes whose first half is not zero and whose second half is
C29_Witness ==
    /\ Returned("get_ed25519_pub_key")
    /\ Len(op.priv_key_bytes) = 64
    /\ op.priv_key_bytes[1] = 255
    /\ op.priv_key_bytes[32] = 255
    /\ \A k \in 33..64 : op.priv_key_bytes[k] = 0
    /\ ret[1] = Raise("Public key bytes not initialized")

\* C30: ensure_tendermint_binaries resolves each distinct binary exactly
\* once, in the order of first mention, however many node groups name it;
\* the map it returns has an entry for the binary of every node group, so
\* that the lookup binaries[node_group_cfg.binary] of the configuration push
\* finds its key; when it raises it returns no map.
C30_BinariesOnce ==
    Returned("ensure_tendermint_binaries") =>
        LET r == ret[1]
            resolved == IF r.ok THEN r.val.resolved ELSE r.resolved
        IN  /\ \A i, j \in 1..Len(resolved) : i # j => resolved[i] # resolved[j]
            /\ \A i \in 1..Len(resolved) :
                   \E k \in 1..Len(op.binaries) : op.binaries[k] = Some(resolved[i])
            /\ r.ok => /\ \A k \in 1..Len(op.binaries) :
                              /\ op.binaries[k] # None
                              /\ op.binaries[k][1] \in DOMAIN r.val.result
                              /\ op.binaries[k][1] \in Range(resolved)
                       /\ DOMAIN r.val.result = Range(resolved)
                       /\ \A i, j \in 1..Len(resolved) :
                              i < j => FirstPos(op.binaries, Some(resolved[i]))
                                          < FirstPos(op.binaries, Some(resolved[j]))
            /\ ~r.ok => "val" \notin DOMAIN r

\* three groups, the first and the third on the same version
C30_Witness ==
    /\ Returned("ensure_tendermint_binaries")
    /\ op.binaries = <<Some("v0.32.0"), Some("/usr/bin/tendermint"), Some("v0.32.0")>>
    /\ ret[1].ok
    /\ ret[1].val.resolved = <<"v0.32.0", "/usr/bin/tendermint">>
    /\ DOMAIN ret[1].val.result = {"v0.32.0", "/usr/bin/tendermint"}

(***************************************************************************)
(* ensure_tendermint_binary: the download directory of one version         *)
(***************************************************************************)
\* "tendermint_%s_linux_amd64.zip" % version
release_zip == "tendermint_v0.32.0_linux_amd64.zip"

\* the contents an archive can have: the released one and another one; ""
\* is the empty file that download leaves behind when the request fails
ArchiveContents == {"release", "tampered"}

\* hashlib.sha256(...).hexdigest(): lower-case hexadecimal, one per content
sha256_hexdigest(content) ==
    CASE content = "release" -> <<"a", "b">>
      [] content = "tampered" -> <<"c", "d">>
      [] OTHER -> <<"e", "3">>

LowerChar(c) ==
    CASE c = "A" -> "a" [] c = "B" -> "b" [] c = "C" -> "c"
      [] c = "D" -> "d" [] c = "E" -> "e" [] c = "F" -> "f" [] OTHER -> c

\* str.lower()
lower(str) == [i \in 1..Len(str) |-> LowerChar(str[i])]

\* a check that finds every archive in order
validate_sha256sum_unchecked(content, expected_hash) == Ok(content)

validate_sha256sum(content, expected_hash) ==
    IF sha256_hexdigest(content) # lower(expected_hash)
    THEN Raise("Expected SHA256 hash to be different")
    ELSE Ok(content)

\* lines: the lines of the file, each the list of its blank-separated parts;
\* the result maps a file name to the hash of its last line
RECURSIVE load_sha256sums_from(_, _)
load_sha256sums_from(lines, n) ==
    IF n = 0 THEN EmptyDict
    ELSE (lines[n][2] :> lines[n][1]) @@ load_sha256sums_from(lines, n - 1)

load_sha256sums(lines) ==
    IF \E i \in 1..Len(lines) : Len(lines[i]) # 2
    THEN Raise("Failed to process SHA256 sums (incorrect format)")
    ELSE Ok(load_sha256sums_from(lines, Len(lines)))

\* download(url, filename): the file is opened for writing before the
\* request is made; remote is <<>> when the response code is 400 or more
download(remote, empty) ==
    IF remote = None THEN [file |-> Some(empty), ok |-> FALSE]
    ELSE [file |-> remote, ok |-> TRUE]

\* zip_ref.extract("tendermint", path=base_path)
extract(content) == <<"tendermint", content>>

\* SHA256SUMS files: the right hash in lower and in upper case, the hash of
\* another archive, no line for the archive, a line that is not a pair
Sha256SumsFiles ==
    {<< <<<<"a", "b">>, release_zip>> >>,
     << <<<<"0", "0">>, "tendermint_v0.32.0_darwin_amd64.zip">>, <<<<"A", "B">>, release_zip>> >>,
     << <<<<"c", "d">>, release_zip>> >>,
     << <<<<"a", "b">>, "tendermint_v0.32.0_darwin_amd64.zip">> >>,
     << <<"not found">> >>,
     <<>>}

\* the calls: a version tag with what the release page serves and what the
\* download directory holds, or a local path
BinaryCalls ==
    [name : {"ensure_tendermint_binary"}, path : {<<"v", "0", ".", "3", "2", ".", "0">>},
     remote_shasums : {None} \cup {Some(f) : f \in Sha256SumsFiles},
     remote_zip : {None} \cup {Some(c) : c \in ArchiveContents},
     cached : [shasums : {None} \cup {Some(f) : f \in Sha256SumsFiles},
               zip : {None} \cup {Some(c) : c \in ArchiveContents \cup {""}},
               bin : {None, Some(extract("release"))}]]
    \cup [name : {"ensure_tendermint_binary"}, path : {<<"/", "t", "m">>},
          is_file : BOOLEAN,
          cached : [shasums : {None}, zip : {None}, bin : {None}]]

InitBinary ==
    /\ op \in BinaryCalls
    /\ download_path = op.cached
    /\ pc = "ensure_binary"
    /\ ret = None
    /\ log = <<>>
    /\ cfg_file = EmptyDict
    /\ cfg = None
    /\ load_result = None
    /\ tendermint_config = EmptyDict
    /\ genesis_doc = None
    /\ fin_error = None
    /\ tf = [monitoring |-> NoWorkdir,
             groups |-> [g \in Names |-> NoWorkdir],
             load_tests |-> [l \in LoadTestIds |-> NoWorkdir]]
    /\ cfgdir = [g \in Names |-> None]
    /\ idx = 0
    /\ exit_code = None
    /\ nops = 1

\* the function ends: it returns or raises
BinaryReturns(result, events) ==
    /\ ret' = Some(result)
    /\ pc' = "returned"
    /\ log' = log \o events

BinaryGoesOn(step, events) ==
    /\ ret' = ret
    /\ pc' = step
    /\ log' = log \o events

\* up to the test of the manifest entry: a local path is returned if it is a
\* file; for a version the SHA256SUMS file is downloaded if absent, and read
ensure_tendermint_binary_shasums ==
    /\ pc = "ensure_binary"
    /\ IF op.path[1] # "v"
       THEN /\ BinaryReturns(IF op.is_file THEN Ok(op.path)
                             ELSE Raise("Cannot find binary at path"), <<>>)
            /\ UNCHANGED download_path
       ELSE IF download_path.shasums = None
       THEN \E got \in {download(op.remote_shasums, <<>>)} :
               /\ download_path' = [download_path EXCEPT !.shasums = got.file]
               /\ IF ~got.ok
                  THEN BinaryReturns(Raise("Failed to download file from URL"),
                                     <<Ev("download", <<"SHA256SUMS">>)>>)
                  ELSE \E sha256sums \in {load_sha256sums(got.file[1])} :
                          IF ~sha256sums.ok
                          THEN BinaryReturns(sha256sums, <<Ev("download", <<"SHA256SUMS">>)>>)
                          ELSE IF release_zip \notin DOMAIN sha256sums.val
                          THEN BinaryReturns(Raise("Missing Tendermint release zipfile SHA256 sum"),
                                             <<Ev("download", <<"SHA256SUMS">>)>>)
                          ELSE BinaryGoesOn("ensure_zip", <<Ev("download", <<"SHA256SUMS">>)>>)
       ELSE /\ UNCHANGED download_path
            /\ \E sha256sums \in {load_sha256sums(download_path.shasums[1])} :
                  IF ~sha256sums.ok THEN BinaryReturns(sha256sums, <<>>)
                  ELSE IF release_zip \notin DOMAIN sha256sums.val
                  THEN BinaryReturns(Raise("Missing Tendermint release zipfile SHA256 sum"), <<>>)
                  ELSE BinaryGoesOn("ensure_zip", <<>>)
    /\ UNCHANGED <<cfg_file, cfg, load_result, tendermint_config, genesis_doc, fin_error,
                   tf, cfgdir, op, idx, exit_code, nops>>

\* the archive is downloaded if absent
ensure_tendermint_binary_zip ==
    /\ pc = "ensure_zip"
    /\ IF download_path.zip = None
       THEN \E got \in {download(op.remote_zip, "")} :
               /\ download_path' = [download_path EXCEPT !.zip = got.file]
               /\ IF ~got.ok
                  THEN BinaryReturns(Raise("Failed to download file from URL"),
                                     <<Ev("download", <<release_zip>>)>>)
                  ELSE BinaryGoesOn("validate", <<Ev("download", <<release_zip>>)>>)
       ELSE /\ UNCHANGED download_path
            /\ BinaryGoesOn("validate", <<>>)
    /\ UNCHANGED <<cfg_file, cfg, load_result, tendermint_config, genesis_doc, fin_error,
                   tf, cfgdir, op, idx, exit_code, nops>>

\* validate_sha256sum(zip_path, sha256sums[release_zip])
ensure_tendermint_binary_validate ==
    /\ pc = "validate"
    /\ \E valid \in {validate_sha256sum(download_path.zip[1],
                         load_sha256sums(download_path.shasums[1]).val[release_zip])} :
          IF ~valid.ok
          THEN BinaryReturns(valid, <<Ev("validate", <<release_zip>>)>>)
          ELSE BinaryGoesOn("extract", <<Ev("validate", <<release_zip>>)>>)
    /\ UNCHANGED <<download_path, cfg_file, cfg, load_result, tendermint_config, genesis_doc,
                   fin_error, tf, cfgdir, op, idx, exit_code, nops>>

\* the binary is extracted from the archive and its path returned
ensure_tendermint_binary_extract ==
    /\ pc = "extract"
    /\ download_path' = [download_path EXCEPT !.bin = Some(extract(download_path.zip[1]))]
    /\ BinaryReturns(Ok(<<"bin_path">>), <<Ev("extract", <<release_zip>>)>>)
    /\ UNCHANGED <<cfg_file, cfg, load_result, tendermint_config, genesis_doc, fin_error,
                   tf, cfgdir, op, idx, exit_code, nops>>

\* the function is called again with the same arguments, on the download
\* directory as the call before left it; op.previous is what that call returned
ensure_tendermint_binary ==
    /\ pc = "returned"
    /\ nops < MaxOps
    /\ nops' = nops + 1
    /\ op' = [previous |-> ret[1]] @@ [op EXCEPT !.cached = download_path]
    /\ pc' = "ensure_binary"
    /\ ret' = None
    /\ log' = <<>>
    /\ UNCHANGED <<download_path, cfg_file, cfg, load_result, tendermint_config, genesis_doc,
                   fin_error, tf, cfgdir, idx, exit_code>>

NextBinary ==
    \/ ensure_tendermint_binary
    \/ ensure_tendermint_binary_shasums
    \/ ensure_tendermint_binary_zip
    \/ ensure_tendermint_binary_validate
    \/ ensure_tendermint_binary_extract

SpecBinary == InitBinary /\ [][NextBinary]_vars

(***************************************************************************)
(* Properties of the binary cache (checked on SpecBinary)                  *)
(***************************************************************************)
IsVersion == op.path[1] = "v"

LogHas(event) == \E i \in 1..Len(log) : log[i].event = event

\* the SHA256SUMS file on disk has a line for the archive, and the hash of
\* that line is the digest of the archive on disk, whatever the case
DigestMatches ==
    /\ download_path.shasums # None
    /\ download_path.zip # None
    /\ \E i \in 1..Len(download_path.shasums[1]) :
          /\ Len(download_path.shasums[1][i]) = 2
          /\ download_path.shasums[1][i][2] = release_zip
          /\ \A j \in (i + 1)..Len(download_path.shasums[1]) :
                 download_path.shasums[1][j][2] # release_zip
          /\ lower(download_path.shasums[1][i][1]) = sha256_hexdigest(download_path.zip[1])

\* C20: for a version tag ensure_tendermint_binary extracts and returns the
\* binary only after the digest of the archive has been compared with the
\* entry of the manifest, case-insensitively, and found equal; on a mismatch
\* or a missing entry it fails, downloads the archive at most once and
\* extracts nothing.
C20_VerifiedBeforeExtract ==
    IsVersion =>
        /\ LogHas("extract") \/ download_path.bin # op.cached.bin \/ (ret # None /\ ret[1].ok)
              => /\ DigestMatches
                 /\ \E i \in 1..Len(log) :
                       /\ log[i].event = "validate"
                       /\ \A j \in 1..Len(log) : log[j].event = "extract" => i < j
        /\ download_path.bin # op.cached.bin
              => download_path.bin = Some(extract(download_path.zip[1]))
        /\ pc = "returned" /\ ~DigestMatches
              => /\ ~ret[1].ok
                 /\ ~LogHas("extract")
                 /\ download_path.bin = op.cached.bin
                 /\ Cardinality({i \in 1..Len(log) : log[i] = Ev("download", <<release_zip>>)}) <= 1

\* the archive served is not the one the manifest names: the call fails
\* after the comparison and no binary is in the directory
C20_Witness ==
    /\ IsVersion
    /\ pc = "returned"
    /\ op.cached = [shasums |-> None, zip |-> None, bin |-> None]
    /\ op.remote_zip = Some("tampered")
    /\ log = <<Ev("download", <<"SHA256SUMS">>), Ev("download", <<release_zip>>),
               Ev("validate", <<release_zip>>)>>
    /\ ~ret[1].ok
    /\ download_path.bin = None

\* the call in progress follows a call that returned a path for the version
Reinvoked == IsVersion /\ "previous" \in DOMAIN op /\ op.previous.ok

\* C21: a call of ensure_tendermint_binary for a version that an earlier call
\* resolved downloads nothing, does not extract the archive again, leaves
\* the download directory as it found it, and returns the path the earlier
\* call returned.
C21_ReinvocationNoOp ==
    Reinvoked =>
        /\ ~LogHas("download")
        /\ ~LogHas("extract")
        /\ download_path = op.cached
        /\ pc = "returned" => ret[1] = op.previous

\* the result of a call that ended in a failed download
DownloadFailed(result) == ~result.ok /\ result.err = "Failed to download file from URL"

\* C34: a failed download of the checksum manifest or of the release archive
\* leaves the cache in a state from which a later call for the same version
\* fetches that file again: the failed fetch leaves no file behind that
\* stands for the manifest or the archive, and the call that follows it
\* makes a download.
C34_FailedFetchRefetched ==
    IsVersion =>
        /\ pc = "returned" /\ DownloadFailed(ret[1])
              => IF log[Len(log)] = Ev("download", <<"SHA256SUMS">>)
                 THEN download_path.shasums = None
                 ELSE download_path.zip = None
        /\ "previous" \in DOMAIN op /\ DownloadFailed(op.previous) /\ pc = "returned"
              => LogHas("download")

(***************************************************************************)
(* get_host_keys: the scan of a host's keys, tried again when it fails      *)
(***************************************************************************)
\* def get_host_keys(hostname, retries=10, retry_wait=5)
DefaultRetries == 10
DefaultRetryWait == 5

\* a scan that is taken for good whenever ssh-keyscan exits 0
scan_succeeded_on_exit(p) == p.returncode = 0

\* p: ssh-keyscan once it has exited, with the non-empty lines it printed
scan_succeeded(p) == p.returncode = 0 /\ Len(p.keys) > 0

\* the calls: the defaults, and small numbers of attempts with and without a wait
InitKeys ==
    /\ op \in [name : {"get_host_keys"}, retries : {0, 1, 2}, retry_wait : {0, DefaultRetryWait}]
              \cup [name : {"get_host_keys"}, retries : {DefaultRetries},
                    retry_wait : {DefaultRetryWait}]
    /\ pc = "get_host_keys"
    /\ idx = 0
    /\ log = <<>>
    /\ ret = None
    /\ cfg_file = EmptyDict
    /\ cfg = None
    /\ load_result = None
    /\ tendermint_config = EmptyDict
    /\ genesis_doc = None
    /\ fin_error = None
    /\ tf = [monitoring |-> NoWorkdir,
             groups |-> [g \in Names |-> NoWorkdir],
             load_tests |-> [l \in LoadTestIds |-> NoWorkdir]]
    /\ cfgdir = [g \in Names |-> None]
    /\ exit_code = None
    /\ nops = 0
    /\ download_path = None

\* one iteration of the loop (idx is i): the scan, then the return, the wait
\* before the next iteration, or the end of the loop and the raise; with no
\* iteration at all the raise reads p before it is bound
get_host_keys ==
    /\ pc = "get_host_keys"
    /\ IF idx >= op.retries
       THEN /\ ret' = Some(Raise("UnboundLocalError"))
            /\ pc' = "returned"
            /\ UNCHANGED <<log, idx>>
       ELSE \E p \in [returncode : {0, 1}, keys : {<<>>, <<"ssh-rsa AAAA">>}] :
               IF scan_succeeded(p)
               THEN /\ ret' = Some(Ok(p.keys))
                    /\ pc' = "returned"
                    /\ log' = Append(log, Ev("ssh_keyscan", p))
                    /\ idx' = idx
               ELSE IF idx < op.retries - 1
               THEN /\ log' = log \o <<Ev("ssh_keyscan", p), Ev("sleep", op.retry_wait)>>
                    /\ idx' = idx + 1
                    /\ UNCHANGED <<ret, pc>>
               ELSE /\ ret' = Some(Raise("Call to ssh-keyscan failed with return code"))
                    /\ pc' = "returned"
                    /\ log' = Append(log, Ev("ssh_keyscan", p))
                    /\ idx' = idx
    /\ UNCHANGED <<cfg_file, cfg, load_result, tendermint_config, genesis_doc, fin_error,
                   tf, cfgdir, op, exit_code, nops, download_path>>

\* ssh-keyscan is waited for until it exits, and it exits: an iteration that
\* can run does run
SpecKeys == InitKeys /\ [][get_host_keys]_vars /\ WF_vars(get_host_keys)

(***************************************************************************)
(* Properties of the retry (checked on SpecKeys)                            *)
(***************************************************************************)
\* the scans made so far, in order
Scans == SelectSeq(log, LAMBDA e : e.event = "ssh_keyscan")

\* the scan exited 0 and printed a key
GoodScan(e) == e.target.returncode = 0 /\ e.target.keys # <<>>

\* at most retries scans; every scan but the last one failed and is followed
\* by one wait of retry_wait, and nothing else is waited for; a return gives
\* the keys of the last scan, which is a good one; a raise follows retries
\* failed scans, with no wait after the last
RetryIsBounded ==
    /\ Len(Scans) <= IF op.retries > 0 THEN op.retries ELSE 0
    /\ \A i \in 1..(Len(Scans) - 1) : ~GoodScan(Scans[i])
    /\ \A i \in 1..Len(log) :
          IF log[i].event = "sleep"
          THEN /\ log[i].target = op.retry_wait
               /\ i > 1
               /\ log[i - 1].event = "ssh_keyscan"
          ELSE /\ log[i].event = "ssh_keyscan"
               /\ i < Len(log) => log[i + 1].event = "sleep"
    /\ pc # "returned" => Len(log) = 2 * idx /\ Len(Scans) = idx
    /\ pc = "returned" /\ ret[1].ok
          => /\ Len(Scans) >= 1
             /\ log[Len(log)].event = "ssh_keyscan"
             /\ GoodScan(log[Len(log)])
             /\ ret[1].val = log[Len(log)].target.keys
    /\ pc = "returned" /\ ~ret[1].ok
          => /\ Len(Scans) = (IF op.retries > 0 THEN op.retries ELSE 0)
             /\ \A i \in 1..Len(Scans) : ~GoodScan(Scans[i])
             /\ log = <<>> \/ log[Len(log)].event = "ssh_keyscan"

====
